---- MODULE Spec2Model ----
(***************************************************************************)
(* A model of newsreap's article content core: NNTPContent (a payload      *)
(* backed by a file, with attached/detached lifetime), the yEnc codec      *)
(* CodecYenc (encode / decode), NNTPArticle (the sorted set of Contents of *)
(* an article, its groups) and NNTPGroup (group names).                    *)
(*                                                                         *)
(* The file system is a map from absolute paths to byte sequences plus a   *)
(* set of directories.  Relative names are resolved against the current    *)
(* directory "cwd"; temporary files are created in the work directory      *)
(* "work", which is a different directory.  Path spellings are kept        *)
(* normalised (absolute).                                                  *)
(***************************************************************************)
EXTENDS Integers, Sequences, FiniteSets, TLC

\* ------------------------------------------------------------------ bounds
MaxLen == 3
MaxObj == 5
MaxSteps == 4
MaxLineLen == 3
MaxArticle == 4

\* ---------------------------------------------------------------- constants
DefaultSortNo == 10000
NoInt == 0 - 1
CrcNone == 0 - 2
NoPath == "NoPath"
NoObj == 0

\* python's None / True / False for the tri-state _detached flag
PyNone == "None"
PyTrue == "True"
PyFalse == "False"

\* NNTPFileMode
BINARY_RO == "rb"
BINARY_WO == "rb+"
BINARY_WO_TRUNCATE == "wb"
BINARY_RW == "r+b"
Closed == "closed"

\* ------------------------------------------------------------------- paths
CwdA == "cwd/a"
DirA == "dir/a"
OutB == "out/b"
DDir == "ddir"
TempPath(n) == "work/tmp" \o ToString(n)
TempName(n) == "tmp" \o ToString(n)
MaxTemp == 2 * MaxObj + MaxSteps + 2
TempPaths == {TempPath(n) : n \in 1..MaxTemp}
UserPaths == {CwdA, DirA, OutB, DDir}
AbsPaths == UserPaths \cup TempPaths

\* os.path.basename
Basename(p) ==
  CASE p = CwdA -> "a"
    [] p = DirA -> "a"
    [] p = OutB -> "b"
    [] p \in TempPaths -> TempName(CHOOSE n \in 1..MaxTemp : TempPath(n) = p)
    [] OTHER -> p

\* os.path.abspath of a name given relative to the current directory
Resolve(p) ==
  IF p \in AbsPaths THEN p ELSE "cwd/" \o p

\* ---------------------------------------------------------------- variables
VARIABLES
  objs,      \* the Content objects created so far (a sequence of records)
  files,     \* the regular files: path -> bytes
  dirs,      \* the directories that the contents may name
  ntemp,     \* how many temp files mkstemp has handed out
  steps,     \* operations performed (bounded by MaxSteps)
  last,      \* the operation just performed, its arguments and its result
  pledge,    \* per Content: the path it was bound to when it was last seen
             \* detached, no attach() or remove() having been called since
  stream,    \* the article text last encoded, and the read position in it
  dec,       \* the CodecYenc object: its decoding state
  parts,     \* the Contents a split() returned that no operation other than
             \* encode() has been called on since
  arts,      \* the NNTPArticle objects created so far (a sequence of records)
  tasks,     \* per concurrent task: where it is in the call it is making
  hook       \* the Hook object, and what its last call() invoked and returned

vars ==
  <<objs, files, dirs, ntemp, steps, last, pledge, stream, dec, parts, arts,
    tasks, hook>>

World == [objs |-> objs, files |-> files, dirs |-> dirs, ntemp |-> ntemp]

\* ------------------------------------------------------------ file system
IsFile(w, p) == p \in DOMAIN w.files
IsDir(w, p) == p \in w.dirs

\* Utils.rm: removes a file, or a directory
RmPath(w, p) ==
  [w EXCEPT !.files = [q \in (DOMAIN w.files) \ {p} |-> w.files[q]],
            !.dirs = @ \ {p}]

PutFile(w, p, data) ==
  [w EXCEPT !.files = [q \in (DOMAIN w.files) \cup {p} |->
                         IF q = p THEN data ELSE w.files[q]]]

Bytes(w, p) == IF IsFile(w, p) THEN w.files[p] ELSE <<>>

SetObj(w, o, c) == [w EXCEPT !.objs[o] = c]

\* tempfile.mkstemp(dir=work_dir): a new empty file under a name never used
Mkstemp(w) ==
  [w |-> [PutFile(w, TempPath(w.ntemp + 1), <<>>) EXCEPT !.ntemp = @ + 1],
   path |-> TempPath(w.ntemp + 1)]

\* tempfile.mkstemp(dir=work_dir) as concurrent tasks see it: a new empty
\* file under the name numbered n, which is any name no file has now
MkstempAt(w, n) ==
  [w |-> [PutFile(w, TempPath(n), <<>>)
            EXCEPT !.ntemp = IF @ < n THEN n ELSE @],
   path |-> TempPath(n)]

\* ----------------------------------------------------------------- Content
\* the attributes NNTPContent.__init__ sets before it looks at filepath
BlankContent(part, total_parts, begin, end, total_size, sort_no, unique) ==
  [st |-> "live", filepath |-> NoPath, filename |-> "", detached |-> PyNone,
   valid |-> FALSE, isdir |-> FALSE,
   part |-> IF part = NoInt THEN 1 ELSE part,
   total_parts |-> IF total_parts = NoInt
                     THEN (IF part = NoInt THEN 1 ELSE part)
                     ELSE total_parts,
   begin |-> IF begin = NoInt THEN 0 ELSE begin,
   end |-> end, total_size |-> total_size, sort_no |-> sort_no,
   parent |-> NoObj, filemode |-> Closed, dirty |-> FALSE, unique |-> unique,
   isheader |-> FALSE]

\* __init__ raises AttributeError when total_parts < part
InitRaises(part, total_parts) ==
  /\ total_parts # NoInt
  /\ total_parts < (IF part = NoInt THEN 1 ELSE part)

is_attached(c) == c.detached # PyTrue

is_valid(c) == c.valid /\ ~c.isdir

\* NNTPContent.close
CloseContent(c) ==
  IF c.filemode # Closed
    THEN [c EXCEPT !.filemode = Closed, !.dirty = FALSE]
    ELSE c

\* can python's open(path, mode) succeed
CanOpen(w, p, mode) ==
  IF mode \in {BINARY_WO_TRUNCATE}
    THEN ~IsDir(w, p)
    ELSE IsFile(w, p)

\* open: the branch that creates a temp file (t is mkstemp's result)
OpenTemp(t, o, mode) ==
  [w |-> SetObj(t.w, o,
                [t.w.objs[o] EXCEPT
                   !.filepath = t.path,
                   !.detached = IF @ = PyNone THEN PyFalse ELSE @,
                   !.filemode = mode]),
   ok |-> TRUE]

\* open: the branch that opens the Content's own filepath
OpenPath(w, o, mode) ==
  IF CanOpen(w, w.objs[o].filepath, mode)
    THEN [w |-> SetObj(
                  IF mode = BINARY_WO_TRUNCATE
                    THEN PutFile(w, w.objs[o].filepath, <<>>) ELSE w,
                  o,
                  [w.objs[o] EXCEPT
                     !.detached = IF @ = PyNone THEN PyTrue ELSE @,
                     !.filemode = mode]),
          ok |-> TRUE]
    ELSE [w |-> w, ok |-> FALSE]

\* NNTPContent.open(mode=mode): [w, ok]
Open(w, o, mode) ==
  IF w.objs[o].filemode # Closed /\ w.objs[o].filemode = mode
    THEN [w |-> w, ok |-> TRUE]
  ELSE IF w.objs[o].filepath # NoPath
    THEN OpenPath(w, o, mode)
  ELSE OpenTemp(Mkstemp(w), o, mode)

\* NNTPContent.__len__
Length(w, o) ==
  IF w.objs[o].filepath = NoPath THEN 0 ELSE Len(Bytes(w, w.objs[o].filepath))

\* the bytes a Content holds
Data(w, o) ==
  IF w.objs[o].filepath = NoPath THEN <<>> ELSE Bytes(w, w.objs[o].filepath)

\* __len__ and tell: a dirty stream of a Content that has a filepath is
\* flushed and the dirty flag reset
Flushed(w, o) ==
  IF w.objs[o].filepath # NoPath /\ w.objs[o].filemode # Closed
       /\ w.objs[o].dirty
    THEN SetObj(w, o, [w.objs[o] EXCEPT !.dirty = FALSE])
    ELSE w

\* NNTPContent.tell: [w, ok]; the stream is opened for reading when there
\* is none
Tell(w, o) ==
  IF Flushed(w, o).objs[o].filemode = Closed
    THEN Open(Flushed(w, o), o, BINARY_RO)
    ELSE [w |-> Flushed(w, o), ok |-> TRUE]

\* NNTPContent.begin
Begin(c) == IF c.begin # 0 THEN c.begin ELSE 0

\* NNTPContent.end (the value it returns)
End(w, o) ==
  IF w.objs[o].end = NoInt
    THEN w.objs[o].begin + Length(w, o)
    ELSE w.objs[o].end

\* NNTPContent.end: the world after the call; the value is computed, with
\* len(self), and stored in _end only when _end is None
EndCall(w, o) ==
  IF w.objs[o].end = NoInt
    THEN SetObj(Flushed(w, o), o,
                [Flushed(w, o).objs[o] EXCEPT !.end = End(w, o)])
    ELSE w

\* NNTPContent.total_size (the value it returns)
TotalSize(w, o) ==
  IF w.objs[o].total_parts <= 1 THEN Length(w, o)
  ELSE End(w, o) - Begin(w.objs[o])

\* write: the stream write and the dirty flag (w has the stream as open() left it)
WriteStream(w, o, data) ==
  IF w.objs[o].filemode \in {Closed, BINARY_RO}
    THEN [w |-> w, ret |-> "raise"]
    ELSE [w |-> SetObj(
                  \* a stream whose file was unlinked under it writes nowhere
                  IF IsFile(w, w.objs[o].filepath)
                    THEN PutFile(w, w.objs[o].filepath,
                                 Bytes(w, w.objs[o].filepath) \o data)
                    ELSE w,
                  o,
                  IF ~w.objs[o].dirty
                    THEN [w.objs[o] EXCEPT !.dirty = TRUE, !.end = NoInt]
                    ELSE w.objs[o]),
          ret |-> "ok"]

\* NNTPContent.write(data): [w, ret]; ret is "ok" or "raise"
Write(w, o, data) ==
  WriteStream(IF w.objs[o].filemode = Closed
                THEN Open(w, o, BINARY_RW).w ELSE w,
              o, data)

\* close the Content o of the world w
CloseIn(w, o) == SetObj(w, o, CloseContent(w.objs[o]))

\* load: unlink the file of an attached Content
LoadUnlink(w, o) ==
  IF w.objs[o].detached = PyFalse /\ w.objs[o].filepath # NoPath
    THEN RmPath(w, w.objs[o].filepath) ELSE w

\* load: reset the flags
LoadReset(w, o) ==
  SetObj(w, o, [w.objs[o] EXCEPT !.isdir = FALSE, !.detached = PyTrue,
                                 !.valid = FALSE, !.unique = FALSE])

\* the head of NNTPContent.load: close, unlink an attached file, reset flags
LoadPrelude(w, o) == LoadReset(LoadUnlink(CloseIn(w, o), o), o)

\* load(path): the branches on the kind of path (w1 is past the head of load)
LoadBind(w1, o, p) ==
  IF IsDir(w1, p)
    THEN [w |-> SetObj(w1, o, [w1.objs[o] EXCEPT
                                 !.isdir = TRUE, !.filepath = p,
                                 !.valid = TRUE, !.filename = Basename(p)]),
          ret |-> "True"]
  ELSE IF ~IsFile(w1, p)
    THEN [w |-> SetObj(w1, o, [w1.objs[o] EXCEPT
                                 !.filepath = NoPath, !.filename = ""]),
          ret |-> "False"]
  ELSE [w |-> SetObj(w1, o, [w1.objs[o] EXCEPT
                               !.filepath = p, !.valid = TRUE,
                               !.filename = Basename(p)]),
        ret |-> "True"]

\* NNTPContent.load(path): [w, ret]
LoadPath(w, o, p) == LoadBind(LoadPrelude(w, o), o, Resolve(p))

\* append: the bytes of e go onto the end of o's file, then e is closed
AppendDone(w, o, e) ==
  SetObj(SetObj(w, o, [w.objs[o] EXCEPT !.dirty = TRUE]),
         e, CloseContent(w.objs[e]))

AppendCopy(w, o, e) ==
  AppendDone(IF IsFile(w, w.objs[o].filepath)
               THEN PutFile(w, w.objs[o].filepath,
                            Bytes(w, w.objs[o].filepath) \o Data(w, e))
               ELSE w,
             o, e)

\* append: eo is the result of entry.open(BINARY_RO)
AppendRead(eo, o, e) == IF ~eo.ok THEN eo.w ELSE AppendCopy(eo.w, o, e)

\* append: so is the result of self.open(BINARY_WO, eof=True)
AppendOpened(so, o, e) ==
  IF ~so.ok THEN so.w ELSE AppendRead(Open(so.w, e, BINARY_RO), o, e)

\* NNTPContent.append(entry), one Content: the new world
AppendContent(w, o, e) == AppendOpened(Open(w, o, BINARY_WO), o, e)

RECURSIVE AppendAll(_, _, _)
AppendAll(w, o, srcs) ==
  IF srcs = <<>> THEN w
  ELSE AppendAll(AppendContent(w, o, Head(srcs)), o, Tail(srcs))

\* NNTPContent.append(entry), one Content: [w, ret]
AppendOne(w, o, e) ==
  [w |-> AppendContent(w, o, e),
   ret |-> IF Open(w, o, BINARY_WO).ok THEN "True" ELSE "False"]

\* load(collection): after the appends
LoadCollDone(w2, o, srcs) ==
  IF Len(srcs) = 0
    THEN [w |-> w2, ret |-> "False"]
    ELSE [w |-> SetObj(w2, o, [w2.objs[o] EXCEPT
                                 !.detached = PyFalse, !.valid = TRUE,
                                 !.filename = Basename(w2.objs[o].filepath)]),
          ret |-> "True"]

\* NNTPContent.load(collection of Contents): [w, ret]
LoadColl(w, o, srcs) ==
  LoadCollDone(AppendAll(LoadPrelude(w, o), o, srcs), o, srcs)

\* NNTPContent.load(content): the part is taken over, then as a collection of one
LoadContent(w, o, e) ==
  LoadColl(SetObj(w, o, [w.objs[o] EXCEPT !.part = w.objs[e].part]), o, <<e>>)

\* __init__: the branches on filepath (w1 holds the new object, id, blank)
NewBind(w1, id, fp, unique) ==
  IF fp = ""
    THEN [w |-> w1, ret |-> "ok", id |-> id]
  ELSE IF ~unique /\ IsFile(w1, Resolve(fp))
    THEN [w |-> LoadPath(w1, id, fp).w, ret |-> "ok", id |-> id]
  ELSE IF IsDir(w1, Resolve(fp))
    THEN [w |-> SetObj(w1, id, [w1.objs[id] EXCEPT
                                  !.isdir = TRUE, !.detached = PyTrue,
                                  !.filename = Basename(Resolve(fp)),
                                  !.filepath = Resolve(fp)]),
          ret |-> "ok", id |-> id]
  ELSE [w |-> SetObj(w1, id, [w1.objs[id] EXCEPT !.filename = Basename(fp)]),
        ret |-> "ok", id |-> id]

\* NNTPContent.__init__: [w, ret, id]; ret is "ok" or "raise"
New(w, fp, part, total_parts, begin, end, total_size, sort_no, unique) ==
  IF InitRaises(part, total_parts)
    THEN [w |-> w, ret |-> "raise", id |-> NoObj]
    ELSE NewBind([w EXCEPT !.objs =
                    Append(@, BlankContent(part, total_parts, begin, end,
                                           total_size, sort_no, unique))],
                 Len(w.objs) + 1, fp, unique)

\* open: uses Mkstemp's result t to give o a path
PathTemp(t, o) == SetObj(t.w, o, [t.w.objs[o] EXCEPT !.filepath = t.path])

\* NNTPContent.path: the filepath, a temp file being created when there is none
PathOf(w, o) ==
  IF w.objs[o].filepath # NoPath THEN w ELSE PathTemp(Mkstemp(w), o)

\* shutil.move / shutil.copy of src onto dst: [w, ret]; ret "ok", "error"
\* (shutil.Error, which save catches) or "raise" (IOError, which it does not)
Transfer(w, src, dst, copy) ==
  IF IsFile(w, src)
    THEN [w |-> IF copy THEN PutFile(w, dst, w.files[src])
                ELSE RmPath(PutFile(w, dst, w.files[src]), src),
          ret |-> "ok"]
  ELSE IF IsDir(w, src) /\ ~copy
    THEN [w |-> [w EXCEPT !.dirs = (@ \ {src}) \cup {dst}], ret |-> "ok"]
  ELSE [w |-> w, ret |-> "raise"]

\* a save whose move forgets to detach the Content
SaveKeepsAttachment(w, o, target, copy) ==
  IF copy THEN w
  ELSE SetObj(w, o, [w.objs[o] EXCEPT !.filepath = target,
                                      !.filename = Basename(target)])

\* the tail of NNTPContent.save: a move detaches and retargets the Content
SaveDone(w, o, target, copy) ==
  IF copy THEN w
  ELSE SetObj(w, o, [w.objs[o] EXCEPT !.detached = PyTrue, !.filepath = target,
                                      !.filename = Basename(target)])

\* save: the outcome of the move or copy t
SaveEnd(t, o, target, copy) ==
  IF t.ret = "ok"
    THEN [w |-> SaveDone(t.w, o, target, copy), ret |-> "True"]
    ELSE [w |-> t.w, ret |-> IF t.ret = "error" THEN "False" ELSE "raise"]

\* save: the move or copy (w3: the path is known, target unlinked, stream closed)
SaveMove(w3, o, target, copy, tdir) ==
  IF tdir
    \* an existing directory: the file goes to target/filename; the only
    \* directory target considered is the Content's own directory
    THEN IF copy THEN [w |-> w3, ret |-> "raise"]
         ELSE [w |-> w3, ret |-> "False"]
  ELSE IF w3.objs[o].filepath = target
    THEN [w |-> SaveDone(w3, o, target, copy), ret |-> "True"]
  ELSE SaveEnd(Transfer(w3, w3.objs[o].filepath, target, copy), o, target, copy)

\* save: an existing file at target that is not the Content's own is unlinked
SaveUnlink(w1, o, target) ==
  IF IsFile(w1, target) /\ w1.objs[o].filepath # target
    THEN RmPath(w1, target) ELSE w1

\* NNTPContent.save(target, copy): [w, ret]; ret "True", "False" or "raise"
Save(w, o, target, copy) ==
  SaveMove(CloseIn(SaveUnlink(PathOf(w, o), o, target), o),
           o, target, copy, IsDir(w, target))

\* copy: the new object n, given the source's filename and attached
CopyBuilt(w, n, o) ==
  IF n.ret = "raise"
    THEN [w |-> w, ret |-> "raise", id |-> NoObj]
    ELSE [w |-> SetObj(n.w, n.id, [n.w.objs[n.id] EXCEPT
                                     !.filename = w.objs[o].filename,
                                     !.detached = PyFalse]),
          ret |-> "ok", id |-> n.id]

\* copy: s is the result of save(filepath, copy=True)
CopySaved(s, o, path) ==
  IF s.ret # "True"
    THEN [w |-> s.w, ret |-> IF s.ret = "raise" THEN "raise" ELSE "None",
          id |-> NoObj]
    ELSE CopyBuilt(s.w,
                   New(s.w, path, s.w.objs[o].part, s.w.objs[o].total_parts,
                       s.w.objs[o].begin, s.w.objs[o].end,
                       s.w.objs[o].total_size, s.w.objs[o].sort_no, FALSE),
                   o)

\* copy: t is mkstemp's result, whose file is unlinked before the save
CopyTemp(t, o) ==
  CopySaved(Save(RmPath(t.w, t.path), o, t.path, TRUE), o, t.path)

\* NNTPContent.copy: [w, ret, id]; ret "ok", "None" or "raise"
Copy(w, o) == CopyTemp(Mkstemp(w), o)

\* NNTPContent.detach / attach
Detach(c) == [c EXCEPT !.detached = PyTrue]
Attach(c) == [c EXCEPT !.detached = PyFalse]

\* NNTPContent.remove: [w, ret]
Remove(w, o) ==
  IF w.objs[o].filepath # NoPath
    THEN [w |-> RmPath(CloseIn(w, o), w.objs[o].filepath),
          ret |-> IF IsFile(w, w.objs[o].filepath)
                       \/ IsDir(w, w.objs[o].filepath)
                    THEN "True" ELSE "False"]
    ELSE [w |-> CloseIn(w, o), ret |-> "False"]

\* a destructor that unlinks whatever the Content is bound to
DelRemovesAlways(c) == c.filepath # NoPath

\* __del__: does the destructor unlink the backing file
DelRemoves(c) == c.detached # PyTrue /\ c.filepath # NoPath

\* __del__: the object is gone
DelGone(w, o) == SetObj(w, o, [CloseContent(w.objs[o]) EXCEPT !.st = "dead"])

\* NNTPContent.__del__
Del(w, o) ==
  IF DelRemoves(w.objs[o])
    THEN RmPath(DelGone(w, o), w.objs[o].filepath)
    ELSE DelGone(w, o)

Min(a, b) == IF a < b THEN a ELSE b

Take(q, n) == SubSeq(q, 1, Min(n, Len(q)))
Drop(q, n) == SubSeq(q, Min(n, Len(q)) + 1, Len(q))

\* sortedset.add with key = Content.key(): within one split all keys share
\* sort_no and filename, so the order is the order of the parts
RECURSIVE SetAdd(_, _, _)
SetAdd(w, res, id) ==
  IF res = <<>> THEN <<id>>
  ELSE IF w.objs[Head(res)].part = w.objs[id].part THEN res
  ELSE IF w.objs[Head(res)].part > w.objs[id].part THEN <<id>> \o res
  ELSE <<Head(res)>> \o SetAdd(w, Tail(res), id)

\* split: obj.close() and objs.add(obj)
SplitStore(s) ==
  [s EXCEPT !.w = CloseIn(s.w, s.cur),
            !.res = SetAdd(s.w, s.res, s.cur)]

\* split: the child n just constructed gets its parent and is opened
SplitChildOpen(s, n, o) ==
  [s EXCEPT !.w = Open(SetObj(n.w, n.id, [n.w.objs[n.id] EXCEPT !.parent = o]),
                       n.id, BINARY_WO_TRUNCATE).w,
            !.part = @ + 1, !.cur = n.id]

\* split: the child created when a part begins (f_length == 0)
SplitChild(s, o, size, total_parts, total_size) ==
  SplitChildOpen(s,
                 New(s.w, s.w.objs[o].filename, s.part + 1, total_parts,
                     s.part * size, (s.part * size) + size, total_size,
                     s.w.objs[o].sort_no, FALSE),
                 o)

RECURSIVE SplitInner(_, _, _, _, _)

\* split: after obj.write(data.read(block_size)), whose result is wr
SplitWritten(s1, wr, block_size, o, size, total_parts, total_size) ==
  IF wr.ret = "raise"
    THEN [s1 EXCEPT !.w = wr.w, !.ret = "raise"]
    ELSE SplitInner([s1 EXCEPT !.w = wr.w,
                               !.f_length = @ + block_size,
                               !.buf = Drop(@, block_size)],
                    o, size, total_parts, total_size)

\* split: obj.write raised IOError: "self.close(); return None"
SplitIOError(s1, o) ==
  [s1 EXCEPT !.w = CloseIn(s1.w, o), !.ret = "None", !.res = <<>>]

\* split: the write of one block (s1 has the child of the part); s1.fail
\* counts the writes down to the one the disk refuses, 0 being none
SplitWrite(s1, block_size, o, size, total_parts, total_size) ==
  IF s1.fail = 1 THEN SplitIOError(s1, o)
  ELSE SplitWritten([s1 EXCEPT !.fail = IF @ > 0 THEN @ - 1 ELSE 0],
                    Write(s1.w, s1.cur, Take(s1.buf, block_size)),
                    block_size, o, size, total_parts, total_size)

\* split: the inner loop, "while total_bytes > 0 and size-f_length > 0"
SplitInner(s, o, size, total_parts, total_size) ==
  IF ~(Len(s.buf) > 0 /\ size - s.f_length > 0) THEN s
  ELSE SplitWrite(IF s.f_length = 0
                    THEN SplitChild(s, o, size, total_parts, total_size)
                    ELSE s,
                  Min(size - s.f_length, Len(s.buf)),
                  o, size, total_parts, total_size)

RECURSIVE SplitLoop(_, _, _, _, _, _)

\* split: the end of one round of "while True"
SplitAfter(s2, o, size, mem_buf, total_parts, total_size) ==
  IF s2.ret # "run" THEN s2
  ELSE SplitLoop(IF s2.f_length = size
                   THEN [SplitStore(s2) EXCEPT !.f_length = 0] ELSE s2,
                 o, size, mem_buf, total_parts, total_size)

\* split: the outer loop, "while True"; a chunk of mem_buf bytes is read when
\* the buffer is empty, and an empty chunk ends the split
SplitLoop(s, o, size, mem_buf, total_parts, total_size) ==
  IF Len(s.buf) = 0 /\ Len(s.data) = 0
    THEN [(IF s.f_length > 0 THEN SplitStore(s) ELSE s) EXCEPT !.ret = "ok"]
  ELSE SplitAfter(SplitInner(IF Len(s.buf) = 0
                               THEN [s EXCEPT !.buf = Take(s.data, mem_buf),
                                              !.data = Drop(s.data, mem_buf)]
                               ELSE s,
                             o, size, total_parts, total_size),
                  o, size, mem_buf, total_parts, total_size)

\* split: total_parts, from divmod(len(self), size)
TotalParts(len, size) ==
  (len \div size) + (IF len % size # 0 THEN 1 ELSE 0)

\* the Contents i..Len(w.objs) go out of scope: __del__ of each
RECURSIVE Released(_, _)
Released(w, i) ==
  IF i > Len(w.objs) THEN w
  ELSE Released(IF w.objs[i].st = "live" THEN Del(w, i) ELSE w, i + 1)

\* split: the result; with "return None" after an IOError the children
\* built so far (the Contents after the first r.base) are referenced by
\* nothing any more
SplitResult(r) ==
  [w |-> IF r.ret = "None" THEN Released(r.w, r.base + 1) ELSE r.w,
   ret |-> r.ret, res |-> r.res]

\* split: the loops, on the world w1 in which the parent is open for
\* reading, the disk refusing the write numbered fail (0: none)
SplitRunIO(w1, o, size, mem_buf, file_size, fail) ==
  SplitResult(SplitLoop([w |-> w1, data |-> Data(w1, o), buf |-> <<>>,
                         f_length |-> 0, part |-> 0, cur |-> NoObj,
                         res |-> <<>>, ret |-> "run", fail |-> fail,
                         base |-> Len(w1.objs)],
                        o, size, mem_buf, TotalParts(file_size, size),
                        file_size))


\* an argument that is a str which names no size ('bad_string')
BadString == 0 - 5

\* Utils.strsize_to_bytes: None for None and for a str that names no size
StrsizeToBytes(x) == NoInt

\* split: "if not isinstance(size, int): size = strsize_to_bytes(size)"
SplitArg(x) == IF x \in {NoInt, BadString} THEN StrsizeToBytes(x) ELSE x

\* split: "if not size or size < 0" (NoInt is None)
SizeRejected(size) == size = NoInt \/ size = 0 \/ size < 0

\* NNTPContent.split(size, mem_buf) on a disk that refuses the write
\* numbered fail of the call
SplitIO(w, o, size, mem_buf, fail) ==
  IF /\ w.objs[o].filepath # NoPath
     /\ ~IsFile(w, w.objs[o].filepath)
     /\ ~IsDir(w, w.objs[o].filepath)
    THEN [w |-> w, ret |-> "raise", res |-> <<>>]
  ELSE IF Length(w, o) = 0 /\ ~IsDir(w, w.objs[o].filepath)
    THEN [w |-> w, ret |-> "None", res |-> <<>>]
  ELSE IF SizeRejected(SplitArg(size)) \/ SizeRejected(SplitArg(mem_buf))
    THEN [w |-> w, ret |-> "None", res |-> <<>>]
  ELSE IF ~CanOpen(w, w.objs[o].filepath, BINARY_RO)
    THEN [w |-> w, ret |-> "None", res |-> <<>>]
  ELSE SplitRunIO(Open(w, o, BINARY_RO).w, o, size, mem_buf, Length(w, o),
                  fail)

\* NNTPContent.split(size, mem_buf): [w, ret, res]; ret "ok" (res is the
\* returned set, in iteration order), "None" or "raise"
Split(w, o, size, mem_buf) == SplitIO(w, o, size, mem_buf, 0)

\* ---------------------------------------------------------------- sort keys
\* A python str is the sequence of its character codes; str < str compares
\* them code by code, a proper prefix being the smaller.
RECURSIVE StrLess(_, _)
StrLess(a, b) ==
  IF b = <<>> THEN FALSE
  ELSE IF a = <<>> THEN TRUE
  ELSE IF Head(a) # Head(b) THEN Head(a) < Head(b)
  ELSE StrLess(Tail(a), Tail(b))

\* cmp(a, b) on two str
StrCmp(a, b) == IF StrLess(a, b) THEN "lt" ELSE IF a = b THEN "eq" ELSE "gt"

\* the decimal digits of n >= 0
RECURSIVE Digits(_)
Digits(n) ==
  IF n < 10 THEN <<48 + n>> ELSE Digits(n \div 10) \o <<48 + (n % 10)>>

RECURSIVE ZeroPad(_, _)
ZeroPad(s, width) ==
  IF Len(s) >= width THEN s ELSE ZeroPad(<<48>> \o s, width)

\* '%.5d' % n: at least five digits, a sign in front of them when n < 0
Fmt5d(n) ==
  IF n < 0 THEN <<45>> \o ZeroPad(Digits(0 - n), 5) ELSE ZeroPad(Digits(n), 5)

\* the characters of the file names of the model
Chars(name) ==
  CASE name = "" -> <<>>
    [] name = "a" -> <<97>>
    [] name = "b" -> <<98>>
    [] name = "a.b" -> <<97, 46, 98>>
    [] name = DDir -> <<100, 100, 105, 114>>
    [] OTHER -> <<116, 109, 112>>
                  \o Digits(CHOOSE n \in 1..MaxTemp : TempName(n) = name)

\* NNTPContent.key(): '%.5d/%s/%.5d' % (sort_no, filename, part), followed by
\* the unique tag str(id(self)) of a Content created with unique=True
key(c, id) ==
  Fmt5d(c.sort_no) \o <<47>> \o Chars(c.filename) \o <<47>> \o Fmt5d(c.part)
    \o (IF c.unique THEN Digits(id) ELSE <<>>)

\* NNTPContent.__cmp__: cmp(self.key(), content.key())
ContentCmp(w, a, b) == StrCmp(key(w.objs[a], a), key(w.objs[b], b))

\* NNTPContent.__lt__(self, other): self.key() < self.key()
ContentLt(w, self, other) ==
  StrLess(key(w.objs[self], self), key(w.objs[self], self))

\* ------------------------------------------------------------------ groups
\* Group names are strings of character codes.
IsUpper(ch) == 65 <= ch /\ ch <= 90

\* GROUP_INVALID_CHAR_RE = '[^A-Z0-9.-]+' with re.I: the characters it spares
IsGroupChar(ch) ==
  \/ IsUpper(ch)
  \/ 97 <= ch /\ ch <= 122
  \/ 48 <= ch /\ ch <= 57
  \/ ch = 46
  \/ ch = 45

\* str.lower()
Lower(s) == [i \in 1..Len(s) |-> IF IsUpper(s[i]) THEN s[i] + 32 ELSE s[i]]

\* GROUP_INVALID_CHAR_RE.sub('', s)
RECURSIVE SubInvalid(_)
SubInvalid(s) ==
  IF s = <<>> THEN <<>>
  ELSE IF IsGroupChar(Head(s)) THEN <<Head(s)>> \o SubInvalid(Tail(s))
  ELSE SubInvalid(Tail(s))

\* NNTPGroup.normalize(group) for a str: <<>> stands for None
normalize(group) == Lower(SubInvalid(group))

\* GROUP_INVALID_CHAR_RE.split(s): the pieces between runs of invalid
\* characters (cur is the piece being read)
RECURSIVE ReSplit(_, _)
ReSplit(s, cur) ==
  IF s = <<>> THEN {cur}
  ELSE IF IsGroupChar(Head(s)) THEN ReSplit(Tail(s), Append(cur, Head(s)))
  ELSE {cur} \cup ReSplit(Tail(s), <<>>)

\* NNTPGroup.split(groups): groups is [form, names]; a str is split into
\* pieces first; NNTPGroup(name) raises for a name that normalizes to
\* nothing, and such a name is skipped.  The result is a set of NNTPGroup
\* objects, equal when their names are: the set of their names.
GroupSplit(groups) ==
  IF groups.form = "str"
    THEN {normalize(p) : p \in UNION {ReSplit(s, <<>>) : s \in groups.names}}
           \ {<<>>}
  ELSE IF groups.form \in {"list", "tuple", "set"}
    THEN {normalize(s) : s \in groups.names} \ {<<>>}
  ELSE {}

\* ----------------------------------------------------------------- Article
\* an object a constructor makes for itself (NNTPHeader(), NNTPAsciiContent())
FreshObj == 0 - 3

\* the body of a response (an NNTPAsciiContent the response made)
ResponseBody == 0 - 4

\* NNTPArticle.__init__: the groups attribute; groups is [form, names], the
\* names of a list, tuple or set being given as a set
ArticleGroupsRaises(groups) ==
  groups.form \notin {"none", "str", "list", "tuple", "set"}

ArticleGroups(groups) ==
  IF \/ groups.form = "none"
     \/ groups.names = {}
     \/ groups.form = "str" /\ groups.names = {<<>>}
    THEN {}
  ELSE IF groups.form = "str" THEN groups.names
  ELSE IF groups.form \in {"list", "tuple"}
    THEN {Lower(x) : x \in groups.names}
  ELSE groups.names

\* NNTPArticle(id=id, no=no, groups=groups)
NewArticle(id, no, groups) ==
  [id |-> id, no |-> no, groups |-> ArticleGroups(groups),
   header |-> FreshObj, body |-> FreshObj, decoded |-> <<>>]

\* NNTPArticle.key(): '%.5d%s' % (self.no, self.id)
ArticleKey(a) == Fmt5d(a.no) \o Chars(a.id)

\* NNTPArticle.__lt__
ArticleLess(a, b) == StrLess(ArticleKey(a), ArticleKey(b))

\* blist.sortedset(key=lambda x: x.key()): a list of pairs [k, id] in the
\* order of k, the key the value had when it was added.
\* _bisect_left / _bisect_right on the stored keys
BisectLeft(s, k) == Cardinality({i \in 1..Len(s) : StrLess(s[i].k, k)}) + 1
BisectRight(s, k) == Cardinality({i \in 1..Len(s) : ~StrLess(k, s[i].k)}) + 1

\* _advance: from position i on, the position of an entry equal to the value
\* (NNTPContent.__cmp__: equal keys now); 0 when the stored keys pass the
\* value's key first
RECURSIVE Advance(_, _, _, _)
Advance(w, s, i, id) ==
  IF i > Len(s) THEN 0
  ELSE IF ContentCmp(w, s[i].id, id) = "eq" THEN i
  ELSE IF StrLess(key(w.objs[id], id), s[i].k) THEN 0
  ELSE Advance(w, s, i + 1, id)

\* sortedset.index(value), 0 for ValueError
SortedIndex(w, s, id) == Advance(w, s, BisectLeft(s, key(w.objs[id], id)), id)

InsertAt(s, i, e) == SubSeq(s, 1, i - 1) \o <<e>> \o SubSeq(s, i, Len(s))
RemoveAt(s, i) == SubSeq(s, 1, i - 1) \o SubSeq(s, i + 1, Len(s))

\* sortedset.add(value): nothing when the value is found in the set
SortedAdd(w, s, id) ==
  IF SortedIndex(w, s, id) # 0 THEN s
  ELSE InsertAt(s, BisectRight(s, key(w.objs[id], id)),
                [k |-> key(w.objs[id], id), id |-> id])

\* the values of a sortedset as iteration yields them
Values(s) == [i \in 1..Len(s) |-> s[i].id]

\* NNTPArticle.add(content): [a, ret]; NoObj stands for an argument that is
\* not an NNTPContent
ArticleAdd(w, a, content) ==
  IF content = NoObj THEN [a |-> a, ret |-> "False"]
  ELSE [a |-> [a EXCEPT !.decoded = SortedAdd(w, a.decoded, content)],
        ret |-> IF Len(SortedAdd(w, a.decoded, content)) > Len(a.decoded)
                  THEN "True" ELSE "False"]

\* next((d for d in self.decoded if isinstance(d, NNTPHeader)), None)
RECURSIVE FirstHeader(_, _)
FirstHeader(w, ids) ==
  IF ids = <<>> THEN NoObj
  ELSE IF w.objs[Head(ids)].isheader THEN Head(ids)
  ELSE FirstHeader(w, Tail(ids))

\* a load_response that leaves the header among the decoded Contents
LoadResponseKeep(w, a, h) == [a |-> a, ret |-> "True"]

\* load_response: self.decoded.remove(self.header)
LoadResponseRemove(w, a, h) ==
  IF h = NoObj THEN [a |-> a, ret |-> "True"]
  ELSE IF SortedIndex(w, a.decoded, h) = 0 THEN [a |-> a, ret |-> "raise"]
  ELSE [a |-> [a EXCEPT !.decoded = RemoveAt(@, SortedIndex(w, a.decoded, h))],
        ret |-> "True"]

\* NNTPArticle.load_response(response): [a, ret]; response is [body, decoded]
LoadResponse(w, a, response) ==
  LoadResponseRemove(w,
    [a EXCEPT !.body = response.body, !.decoded = response.decoded,
              !.header = FirstHeader(w, Values(response.decoded))],
    FirstHeader(w, Values(response.decoded)))

\* --------------------------------------------------------------------- Hook
\* the functions handed to a Hook, by __name__, and the one that raises
HookFuncs == {"a", "b"}
Raises == {"b"}

\* the hook names the functions are registered under
HookNames == {"x", "y"}

\* the priorities passed to add(); NoInt stands for priority=None
Priorities == {1, 2, 999999, 1000000}

\* Hook.priority, the default of a Hook built without one
HookPriority == 1000

\* '%.6d' % n: at least six digits, a sign in front of them when n < 0
Fmt6d(n) ==
  IF n < 0 THEN <<45>> \o ZeroPad(Digits(0 - n), 6) ELSE ZeroPad(Digits(n), 6)

\* '%.6d/%s' % (priority, name)
HookKey(priority, name) == Fmt6d(priority) \o <<47>> \o name

\* '%s.%s' % (self.name, function.__name__) of the Hook named 'm'
HookModule(fn) == <<109, 46>> \o Chars(fn)

\* Hook(name='m'): no functions; entries[fn][name] is the priority the function
\* fn carries for the hook name (NoInt: it carries none); op, name, ret, called
\* and responses are what the last add() or call() was given and returned, and
\* adds holds <<fn, name>> of every add(fn, name) that returned True
NewHook ==
  [entries   |-> [fn \in HookFuncs |-> [n \in HookNames |-> NoInt]],
   functions |-> [n \in HookNames |-> <<>>],
   adds      |-> {},
   op        |-> "",
   name      |-> "",
   ret       |-> "",
   called    |-> <<>>,
   responses |-> <<>>]

\* sortedset.add(value) of a set of dicts keyed by value['key']: nothing when
\* an equal dict is in the set
DictAdd(s, e) ==
  IF \E i \in 1..Len(s) : s[i] = e THEN s ELSE InsertAt(s, BisectRight(s, e.k), e)

\* the priority add() works with: self.priority unless an int was passed
AddPriority(priority) == IF priority = NoInt THEN HookPriority ELSE priority

\* the entries of the function after add() has stored the name it was given
AddEntries(h, fn, name, p) ==
  IF h.entries[fn][name] # NoInt THEN h.entries
  ELSE [h.entries EXCEPT ![fn][name] = p]

\* the dict add() stores under one hook name of the function
AddDict(e, fn, n, p) ==
  [k |-> HookKey(p, Chars(fn)), priority |-> e[fn][n], function |-> fn]

\* the function sets after add() went over every entry of the function
AddFunctions(h, e, fn, p) ==
  [n \in HookNames |->
     IF e[fn][n] = NoInt THEN h.functions[n]
     ELSE DictAdd(h.functions[n], AddDict(e, fn, n, p))]

\* Hook.add(function, name, priority) with the priority add() works with
HookAddWith(h, fn, name, p) ==
  [h EXCEPT !.entries = AddEntries(h, fn, name, p),
            !.functions = AddFunctions(h, AddEntries(h, fn, name, p), fn, p),
            !.adds = IF AddFunctions(h, AddEntries(h, fn, name, p), fn, p)
                        # h.functions
                     THEN @ \cup {<<fn, name>>} ELSE @,
            !.op = "add",
            !.name = name,
            !.ret = IF AddFunctions(h, AddEntries(h, fn, name, p), fn, p)
                       # h.functions
                    THEN "True" ELSE "False",
            !.called = <<>>,
            !.responses = <<>>]

HookAdd(h, fn, name, priority) == HookAddWith(h, fn, name, AddPriority(priority))

\* the dict call() adds to its responses for one stored function
ResponseDict(f) ==
  [k |-> HookKey(f.priority, HookModule(f.function)), priority |-> f.priority,
   module |-> HookModule(f.function), result |-> f.function]

\* the responses of call() after the functions funcs[i..] were invoked
RECURSIVE Responses(_, _, _)
Responses(funcs, i, r) ==
  IF i > Len(funcs) THEN r
  ELSE IF funcs[i].function \in Raises THEN Responses(funcs, i + 1, r)
  ELSE Responses(funcs, i + 1, DictAdd(r, ResponseDict(funcs[i])))

\* Hook.call(function_name): called is every invocation in order
HookCall(h, name) ==
  [h EXCEPT !.op = "call",
            !.name = name,
            !.ret = "",
            !.called = [i \in 1..Len(h.functions[name]) |->
                          [function |-> h.functions[name][i].function,
                           priority |-> h.functions[name][i].priority]],
            !.responses = Responses(h.functions[name], 1, <<>>)]

\* -------------------------------------------------------------------- yEnc
\* The article text is a sequence of lines: keyword lines are records of the
\* fields YENC_RE extracts, payload lines carry their encoded characters (the
\* line terminator is left out of both).  The pure python path of the codec
\* is the one modelled (FAST_YENC_SUPPORT = False).
ESCAPE == 61
CR == 13
LF == 10

YENC_ENCODE_ESCAPED_CHARACTERS == {0, 13, 10, 61, 32, 9, 46}

\* the characters that follow '=' in the keys of YENC_DECODE_SPECIAL_MAP
YENC_DECODE_SPECIAL == {k + 64 : k \in {0, 13, 10, 32, 9, 46, 61}}

\* zlib.crc32 as a rolling checksum: abstracted to a polynomial hash of the
\* bytes, 0 for the empty string
RECURSIVE Crc32(_, _)
Crc32(data, crc) ==
  IF data = <<>> THEN crc
  ELSE Crc32(Tail(data), ((crc * 257) + Head(data) + 1) % 8000009)

\* encode: one byte of the payload (the body of "while idx < len(data)")
EncodeByte(b) ==
  IF ((b + 42) % 256) \in YENC_ENCODE_ESCAPED_CHARACTERS
    THEN <<ESCAPE, (((b + 42) % 256) + 64) % 256>>
    ELSE <<(b + 42) % 256>>

RECURSIVE EncodeString(_)
EncodeString(data) ==
  IF data = <<>> THEN <<>>
  ELSE EncodeByte(Head(data)) \o EncodeString(Tail(data))

DataLine(chars) == [kind |-> "data", chars |-> chars]

RECURSIVE WrapLines(_, _, _, _)

\* encode: one line is cut at eol; a line that would be empty is written
\* again and again (the loop does not advance)
WrapAt(results, offset, linelen, out, eol) ==
  IF eol = offset
    THEN [lines |-> out, rest |-> results, hang |-> TRUE]
    ELSE WrapLines(results, eol, linelen,
                   Append(out, DataLine(SubSeq(results, offset + 1, eol))))

\* a wrap that cuts every line at linelen characters
LineEndNoPull(results, offset, linelen) == offset + linelen

\* encode: eol, pulled back by one when the line would end with '='
LineEnd(results, offset, linelen) ==
  IF results[offset + linelen] = ESCAPE
    THEN offset + linelen - 1 ELSE offset + linelen

\* encode: "while offset < (len(results)-self.linelen+1)"
WrapLines(results, offset, linelen, out) ==
  IF ~(offset < Len(results) - linelen + 1)
    THEN [lines |-> out, rest |-> SubSeq(results, offset + 1, Len(results)),
          hang |-> FALSE]
    ELSE WrapAt(results, offset, linelen, out,
                LineEnd(results, offset, linelen))

RECURSIVE EncodeLoop(_, _, _, _, _)

\* encode: the rest of one round of "while True", wr being the wrapped lines
EncodeChunk(data, wr, mem_buf, linelen) ==
  IF wr.hang THEN wr
  ELSE EncodeLoop(data, wr.rest, wr.lines, mem_buf, linelen)

\* encode: "while True", reading mem_buf bytes at a time
EncodeLoop(data, results, out, mem_buf, linelen) ==
  IF data = <<>>
    THEN [lines |-> out, rest |-> results, hang |-> FALSE]
    ELSE EncodeChunk(Drop(data, mem_buf),
                     WrapLines(results \o EncodeString(Take(data, mem_buf)),
                               0, linelen, out),
                     mem_buf, linelen)

\* encode: fmt_ybegin, fmt_ypart and fmt_yend
YBegin(w, o, linelen) ==
  [kind |-> "ybegin", part |-> w.objs[o].part, total |-> w.objs[o].total_parts,
   line |-> linelen, size |-> Length(w, o), name |-> w.objs[o].filename]

YPart(w, o) ==
  [kind |-> "ypart", begin |-> Begin(w.objs[o]) + 1, end |-> End(w, o)]

\* NNTPContent.crc32 (the value): None when the file cannot be opened
Crc32Of(w, o) ==
  IF IsFile(w, w.objs[o].filepath) THEN Crc32(Data(w, o), 0) ELSE CrcNone

YEnd(w, o) ==
  [kind |-> "yend", size |-> Length(w, o), part |-> w.objs[o].part,
   pcrc32 |-> Crc32Of(w, o),
   crc32 |-> IF w.objs[o].parent # NoObj
               THEN Crc32Of(w, w.objs[o].parent) ELSE NoInt]

\* encode: the lines written, given the payload lines e
EncodeLines(w, o, linelen, e) ==
  <<YBegin(w, o, linelen), YPart(w, o)>>
    \o e.lines
    \o (IF e.rest # <<>> THEN <<DataLine(e.rest)>> ELSE <<>>)
    \o <<YEnd(w, o)>>

\* encode: the payload loop on the open content (w2) and content.close()
EncodeBody(w2, o, linelen, e) ==
  IF e.hang
    THEN [w |-> w2, ret |-> "hang", lines |-> <<>>]
    ELSE [w |-> CloseIn(w2, o), ret |-> "ok",
          lines |-> EncodeLines(w2, o, linelen, e)]

\* encode: content.open(), op being its result
EncodeOpened(op, o, linelen, mem_buf) ==
  IF ~op.ok
    THEN [w |-> op.w, ret |-> "None", lines |-> <<>>]
    ELSE EncodeBody(op.w, o, linelen,
                    EncodeLoop(Data(op.w, o), <<>>, <<>>, mem_buf, linelen))

\* len(content), then content.end(): __len__ flushes a dirty stream of a
\* Content that has a filepath, and end() caches its value in _end
EndCached(w, o) ==
  SetObj(w, o, [w.objs[o] EXCEPT
                  !.end = End(w, o),
                  !.dirty = IF w.objs[o].filepath # NoPath
                                 /\ w.objs[o].filemode # Closed
                              THEN FALSE ELSE @])

\* content.crc32(): the stream is opened for reading and left open
Crc32Opened(w, o) == Open(w, o, BINARY_RO).w

\* encode: the parent's crc32() is taken when there is a parent
EncodeParentCrc(w, o) ==
  IF w.objs[o].parent # NoObj THEN Crc32Opened(w, w.objs[o].parent) ELSE w

\* CodecYenc.encode(content, mem_buf): [w, ret, lines]; ret "ok", "None",
\* "raise" or "hang"
Encode(w, o, linelen, mem_buf) ==
  IF InitRaises(w.objs[o].part, w.objs[o].total_parts)
    THEN [w |-> w, ret |-> "raise", lines |-> <<>>]
  ELSE IF /\ w.objs[o].filepath # NoPath
          /\ ~IsFile(w, w.objs[o].filepath) /\ ~IsDir(w, w.objs[o].filepath)
    \* len(content): getsize raises OSError when the file is gone
    THEN [w |-> w, ret |-> "raise", lines |-> <<>>]
  ELSE IF w.objs[o].parent # NoObj /\ w.objs[w.objs[o].parent].st = "dead"
    THEN [w |-> EndCached(w, o), ret |-> "raise", lines |-> <<>>]
  ELSE EncodeOpened(Open(EncodeParentCrc(Crc32Opened(EndCached(w, o), o), o),
                         o, BINARY_RW),
                    o, linelen, mem_buf)

\* decode: YENC_DECODE_SPECIAL_RE.sub(...).translate(YENC42) on one line
RECURSIVE DecodeLine(_)
DecodeLine(chars) ==
  IF chars = <<>> THEN <<>>
  ELSE IF /\ Head(chars) = ESCAPE /\ Len(chars) >= 2
          /\ chars[2] \in YENC_DECODE_SPECIAL
    THEN <<(chars[2] + 512 - 64 - 42) % 256>> \o DecodeLine(Tail(Tail(chars)))
  ELSE IF Head(chars) \in {CR, LF}
    THEN DecodeLine(Tail(chars))
  ELSE <<(Head(chars) + 256 - 42) % 256>> \o DecodeLine(Tail(chars))

\* YENC_KEY_MAP's value of key_1 for a keyword line
KeyOf(line) ==
  CASE line.kind = "ybegin" -> "begin"
    [] line.kind = "ypart" -> "part"
    [] line.kind = "yend" -> "end"

\* a codec after CodecYenc.__init__ and reset()
FreshCodec ==
  [meta |-> {}, part |-> 1, decoded |-> NoObj, crc |-> 0, ndecoded |-> 0,
   lines |-> 0, total_lines |-> 0]

\* NNTPBinaryContent(filepath=name, part=part, work_dir=work_dir)
NewBinary(w, name, part) ==
  New(w, name, part, NoInt, NoInt, NoInt, NoInt, DefaultSortNo, FALSE)

\* the state of one decode() call: the world, the codec, the lines and the
\* position in them, the result, and the pcrc32 and rolling crc at =yend
DecodeStart(w, d, lines, pos) ==
  [w |-> w, d |-> d, lines |-> lines, pos |-> pos, ret |-> "run",
   pcrc32 |-> NoInt, crc |-> NoInt]

\* decode: what follows the loop
DecodeFinish(s) ==
  [s EXCEPT
     !.d = [@ EXCEPT !.meta = {}, !.part = 1],
     !.w = IF s.d.decoded # NoObj /\ Length(s.w, s.d.decoded) > 0
             THEN CloseIn(s.w, s.d.decoded) ELSE s.w,
     !.ret = IF s.d.decoded = NoObj THEN "None" ELSE "ok"]

RECURSIVE DecodeLoop(_)

\* decode: the =ybegin line allocates the target Content n
DecodeAllocated(s, n, part) ==
  IF n.ret = "raise" THEN [s EXCEPT !.ret = "raise"]
  ELSE DecodeLoop([s EXCEPT !.w = n.w, !.pos = @ + 1,
                            !.d = [@ EXCEPT !.part = part, !.decoded = n.id]])

\* decode: _meta.get('part', 1) of an =ybegin line
MetaPart(line) == IF line.part = NoInt THEN 1 ELSE line.part

\* decode: a keyword line whose key is stored in _meta (s.d.meta has it)
DecodeKeyword(s, line) ==
  IF "end" \in s.d.meta
    THEN IF s.d.decoded = NoObj
           THEN [s EXCEPT !.ret = "raise"]
           ELSE DecodeFinish(
                  [s EXCEPT !.w = SetObj(s.w, s.d.decoded,
                                         [s.w.objs[s.d.decoded]
                                            EXCEPT !.valid = TRUE]),
                            !.pos = @ + 1,
                            !.pcrc32 = line.pcrc32, !.crc = s.d.crc])
  ELSE IF KeyOf(line) = "begin"
    THEN IF line.name = ""
           \* 'name' not in _meta: the key stays recorded, nothing is allocated
           THEN DecodeLoop([s EXCEPT !.pos = @ + 1])
           ELSE DecodeAllocated(s, NewBinary(s.w, line.name, MetaPart(line)),
                                MetaPart(line))
  ELSE IF "begin" \notin s.d.meta
    THEN DecodeLoop([s EXCEPT !.pos = @ + 1])
  ELSE IF s.d.decoded = NoObj
    THEN [s EXCEPT !.ret = "raise"]
  ELSE DecodeLoop(
         [s EXCEPT !.w = SetObj(s.w, s.d.decoded,
                                [s.w.objs[s.d.decoded]
                                   EXCEPT !.part = s.d.part]),
                   !.pos = @ + 1])

\* decode: a payload line, wr being the result of self.decoded.write(decoded)
DecodeWritten(s, wr) ==
  IF wr.ret = "raise" THEN [s EXCEPT !.w = wr.w, !.ret = "raise"]
  ELSE DecodeLoop([s EXCEPT !.w = wr.w, !.pos = @ + 1])

\* decode: the decoded bytes are written to the target Content
DecodeWrite(s, decoded) ==
  IF s.d.decoded = NoObj
    THEN [s EXCEPT !.ret = "raise"]
    ELSE DecodeWritten(s, Write(s.w, s.d.decoded, decoded))

\* decode: a payload line is counted into the crc, the line and byte counts
DecodePayload(s, decoded) ==
  DecodeWrite([s EXCEPT !.d = [@ EXCEPT !.crc = Crc32(decoded, @),
                                        !.lines = @ + 1,
                                        !.ndecoded = @ + Len(decoded)]],
              decoded)

\* a duplicate keyword handled without the seek: the line stays consumed
DecodeRewindSkip(s) ==
  DecodeFinish([s EXCEPT !.d.total_lines = @ - 1, !.pos = @ + 1])

\* decode: the key of the line read is in _meta already: the stream is put
\* back to the start of the line (s.pos still names it), the line is taken
\* out of the count and the loop is left
DecodeRewind(s) == DecodeFinish([s EXCEPT !.d.total_lines = @ - 1])

\* a test that takes one missing key, not two, for "no start yet"
NoStartYetOneMissing(meta) == Cardinality({"begin", "part"} \ meta) = 1

\* decode: len(set(('begin', 'part')) - set(self._meta)) == 2
NoStartYet(meta) == Cardinality({"begin", "part"} \ meta) = 2

\* decode: one line has been read (total_lines is counted)
DecodeRead(s, line) ==
  IF line.kind # "data"
    THEN IF KeyOf(line) \in s.d.meta
           THEN DecodeRewind(s)
         ELSE IF KeyOf(line) = "end" /\ NoStartYet(s.d.meta)
           THEN DecodeLoop([s EXCEPT !.pos = @ + 1])
         ELSE DecodeKeyword([s EXCEPT !.d.meta = @ \cup {KeyOf(line)}], line)
  ELSE IF NoStartYet(s.d.meta)
    THEN DecodeLoop([s EXCEPT !.pos = @ + 1])
  ELSE DecodePayload(s, DecodeLine(line.chars))

\* an end of input that also forgets the keywords and the part number
DecodeEofResets(s) ==
  [s EXCEPT !.ret = "True", !.d = [@ EXCEPT !.meta = {}, !.part = 1]]

\* decode: readline() gave nothing: "return True", the codec is left as it is
DecodeEof(s) == [s EXCEPT !.ret = "True"]

\* decode: "while self.decode_loop()"
DecodeLoop(s) ==
  IF s.pos > Len(s.lines)
    THEN DecodeEof(s)
    ELSE DecodeRead([s EXCEPT !.d.total_lines = @ + 1], s.lines[s.pos])

\* CodecYenc.decode(stream)
Decode(w, d, lines, pos) == DecodeLoop(DecodeStart(w, d, lines, pos))

\* ----------------------------------------------------------------- actions
Live == {o \in 1..Len(objs) : objs[o].st = "live"}

NoLast ==
  [op |-> "init", id |-> NoObj, ret |-> "", res |-> <<>>, path |-> "",
   copy |-> FALSE, n1 |-> 0, n2 |-> 0, srcs |-> <<>>, groups |-> {}]

\* the detached binding of Content o after the operation l gave the world w
Pledged(w, l, o) ==
  IF l.id = o /\ l.op \in {"attach", "remove"} THEN NoPath
  ELSE IF w.objs[o].detached = PyTrue /\ w.objs[o].filepath # NoPath
    THEN w.objs[o].filepath
  ELSE IF o \in DOMAIN pledge THEN pledge[o]
  ELSE NoPath

\* the Contents of split() results still as the split left them, after the
\* operation l
PartsAfter(l) ==
  (parts \cup (IF l.op = "split" /\ l.ret = "ok"
                 THEN {l.res[i] : i \in 1..Len(l.res)} ELSE {}))
    \ (IF l.op \in {"write", "load", "loadcoll", "loadcontent", "save",
                     "remove", "del", "detach", "attach"}
         THEN {l.id} ELSE {})

\* the tasks that run concurrently, and a task that has not started a call
Tasks == {1, 2}

IdleTask == [pc |-> "idle", src |-> NoObj, path |-> NoPath, obj |-> NoObj]

NoTasks == [t \in Tasks |-> IdleTask]

\* the world and the record of the operation after a step
CommitWorld(w, l) ==
  /\ objs' = w.objs
  /\ parts' = PartsAfter(l)
  /\ pledge' = [o \in 1..Len(w.objs) |-> Pledged(w, l, o)]
  /\ files' = w.files
  /\ dirs' = w.dirs
  /\ ntemp' = w.ntemp
  /\ steps' = steps + 1
  /\ last' = l

\* a step of an operation on Contents
Commit(w, l) == CommitWorld(w, l) /\ UNCHANGED <<stream, dec,
                                                     arts, tasks, hook>>

\* no article text yet
NoStream ==
  [lines |-> <<>>, pos |-> 1, payload |-> <<>>, src |-> NoObj,
   tampered |-> FALSE]

CanStep == steps < MaxSteps

\* the file of the directory "dir" holds MaxLen distinct bytes
Payload == [i \in 1..MaxLen |-> i]

Init ==
  /\ objs = <<>>
  /\ \E cwd \in BOOLEAN :
       files = IF cwd THEN (CwdA :> <<9>>) @@ (DirA :> Payload)
               ELSE (DirA :> Payload)
  /\ dirs = {DDir}
  /\ ntemp = 0
  /\ steps = 0
  /\ last = NoLast
  /\ pledge = <<>>
  /\ stream = NoStream
  /\ dec = FreshCodec
  /\ parts = {}
  /\ arts = <<>>
  /\ tasks = NoTasks
  /\ hook = NewHook

\* the constructor calls considered: <<filepath, part, total_parts>>
NewArgs ==
  {<<fp, NoInt, NoInt>> : fp \in {"", DirA, CwdA, DDir}}
    \cup {<<fp, 2, 3>> : fp \in {"", DirA}} \cup {<<"", 3, 2>>}
    \cup {<<"", 0, NoInt>>}

\* c = NNTPContent(filepath, part, total_parts)
DoNew ==
  /\ CanStep /\ Len(objs) < MaxObj
  /\ \E a \in NewArgs :
       LET fp == a[1]
           pt == <<a[2], a[3]>>
       IN
       LET r == New(World, fp, pt[1], pt[2], NoInt, NoInt, NoInt,
                    DefaultSortNo, FALSE)
       IN Commit(r.w, [NoLast EXCEPT !.op = "new", !.id = r.id, !.ret = r.ret,
                                     !.path = fp, !.n1 = pt[1], !.n2 = pt[2]])

\* c.write(data)
DoWrite ==
  /\ CanStep
  /\ \E o \in Live :
       /\ Length(World, o) < MaxLen
       /\ LET r == Write(World, o, <<Length(World, o) + 1>>)
          IN Commit(r.w, [NoLast EXCEPT !.op = "write", !.id = o, !.ret = r.ret])

\* c.load(path)
DoLoadPath ==
  /\ CanStep
  /\ \E o \in Live : \E p \in {DirA, CwdA, DDir, OutB} :
       LET r == LoadPath(World, o, p)
       IN Commit(r.w, [NoLast EXCEPT !.op = "load", !.id = o, !.ret = r.ret,
                                     !.path = p])

\* the Contents a load or an append may read: live, not the target itself and
\* not bound to the target's own file
Sources(o) ==
  {e \in Live \ {o} :
     objs[e].filepath = NoPath \/ objs[e].filepath # objs[o].filepath}

\* c.load([e1, ..., eN])
DoLoadColl ==
  /\ CanStep
  /\ \E o \in Live :
     \E srcs \in {<<>>} \cup {<<e>> : e \in Sources(o)}
                 \cup {q \in Sources(o) \X Sources(o) : q[1] # q[2]} :
       /\ Len(Data(World, o)) + Len(srcs) * MaxLen <= 2 * MaxLen
       /\ LET r == LoadColl(World, o, srcs)
          IN Commit(r.w, [NoLast EXCEPT !.op = "loadcoll", !.id = o,
                                        !.ret = r.ret, !.srcs = srcs])

\* c.load(e), e a Content
DoLoadContent ==
  /\ CanStep
  /\ \E o \in Live : \E e \in Sources(o) :
       LET r == LoadContent(World, o, e)
       IN Commit(r.w, [NoLast EXCEPT !.op = "loadcontent", !.id = o,
                                     !.ret = r.ret, !.srcs = <<e>>])

\* c.save(target, copy)
DoSave ==
  /\ CanStep
  /\ \E o \in Live : \E copy \in BOOLEAN :
     \E target \in {OutB, DirA} \cup ({objs[o].filepath} \ {NoPath}) :
       LET r == Save(World, o, target, copy)
       IN Commit(r.w, [NoLast EXCEPT !.op = "save", !.id = o, !.ret = r.ret,
                                     !.path = target, !.copy = copy])

\* c.copy()
DoCopy ==
  /\ CanStep /\ Len(objs) < MaxObj
  /\ \E o \in Live :
       LET r == Copy(World, o)
       IN Commit(r.w, [NoLast EXCEPT !.op = "copy", !.id = o, !.ret = r.ret,
                                     !.res = IF r.id = NoObj THEN <<>>
                                             ELSE <<r.id>>])

\* the sizes split() must reject: zero, a negative number, None and a str
\* that names no size
BadSizes == {0, 0 - MaxLen, NoInt, BadString}

\* c.split(size, mem_buf): an argument that must be rejected comes with a
\* good one (1) as the other argument
DoSplit ==
  /\ CanStep
  /\ \E o \in Live : \E size \in BadSizes \cup 1..(MaxLen + 1) :
     \E mem_buf \in BadSizes \cup 1..MaxLen :
       /\ Len(objs) + MaxLen <= MaxObj
       /\ size \in BadSizes => mem_buf = 1
       /\ mem_buf \in BadSizes => size = 1
       /\ LET r == Split(World, o, size, mem_buf)
          IN Commit(r.w, [NoLast EXCEPT !.op = "split", !.id = o, !.ret = r.ret,
                                        !.res = r.res, !.n1 = size,
                                        !.n2 = mem_buf])

\* c.detach()
DoDetach ==
  /\ CanStep
  /\ \E o \in Live :
       Commit(SetObj(World, o, Detach(objs[o])),
              [NoLast EXCEPT !.op = "detach", !.id = o])

\* c.attach()
DoAttach ==
  /\ CanStep
  /\ \E o \in Live :
       Commit(SetObj(World, o, Attach(objs[o])),
              [NoLast EXCEPT !.op = "attach", !.id = o])

\* c.remove()
DoRemove ==
  /\ CanStep
  /\ \E o \in Live :
       LET r == Remove(World, o)
       IN Commit(r.w, [NoLast EXCEPT !.op = "remove", !.id = o, !.ret = r.ret])

\* the Content goes out of scope
DoDel ==
  /\ CanStep
  /\ \E o \in Live :
       Commit(Del(World, o), [NoLast EXCEPT !.op = "del", !.id = o])

\* ------------------------------------------------------------------ claims
\* the operation just performed, in the post-state of a step
SplitOk == last.op = "split" /\ last.ret = "ok"

\* the bytes of the Contents ids, in order, in the world w
RECURSIVE JoinedBytes(_, _)
JoinedBytes(w, ids) ==
  IF ids = <<>> THEN <<>>
  ELSE Data(w, Head(ids)) \o JoinedBytes(w, Tail(ids))

\* C3 (as stated): for every file-backed Content, split(part_size >= 1,
\* mem_buf >= 1) returns exactly ceil(len/part_size) children, and the
\* children's bytes joined in part order are the parent's bytes
C3_SplitCountAndBytes ==
  [][(/\ last'.op = "split" /\ last'.n1 >= 1 /\ last'.n2 >= 1
      /\ IsFile(World, objs[last'.id].filepath))
     => /\ last'.ret = "ok"
        /\ Len(last'.res) = TotalParts(Length(World, last'.id), last'.n1)
        /\ JoinedBytes(World', last'.res) = Data(World, last'.id)]_vars

\* C4 (as stated): the i-th child of split(part_size) on a Content of length
\* len with N children has part i, total_parts N, begin() (i-1)*part_size,
\* end() min(i*part_size, len) and the parent's sort_no, and the returned set
\* iterates in increasing part order
C4_SplitChildMetadata ==
  [][SplitOk' =>
       \A i \in 1..Len(last'.res) :
         /\ objs'[last'.res[i]].part = i
         /\ objs'[last'.res[i]].total_parts = Len(last'.res)
         /\ Begin(objs'[last'.res[i]]) = (i - 1) * last'.n1
         /\ End(World', last'.res[i])
              = Min(i * last'.n1, Length(World, last'.id))
         /\ objs'[last'.res[i]].sort_no = objs[last'.id].sort_no
         /\ \A j \in 1..Len(last'.res) :
              i < j => objs'[last'.res[i]].part < objs'[last'.res[j]].part]_vars

\* C5: when a Content is destroyed, its backing file (or directory) is
\* removed if and only if the Content is attached at that moment
C5_DestructionLifetime ==
  [][(/\ last'.op = "del"
      /\ objs[last'.id].filepath # NoPath
      /\ \/ IsFile(World, objs[last'.id].filepath)
         \/ IsDir(World, objs[last'.id].filepath))
     => (is_attached(objs[last'.id])
           <=> ~(\/ IsFile(World', objs[last'.id].filepath)
                 \/ IsDir(World', objs[last'.id].filepath)))]_vars

\* C5 happens: an attached copy was destroyed and its file is gone, and the
\* detached original was destroyed and its file is still there
C5_Witness ==
  /\ last.op = "del"
  /\ \E a, b \in 1..Len(objs) :
       /\ objs[a].st = "dead" /\ objs[b].st = "dead"
       /\ objs[a].detached = PyFalse /\ objs[a].filepath \in TempPaths
       /\ ~IsFile(World, objs[a].filepath)
       /\ objs[b].detached = PyTrue /\ objs[b].filepath = DirA
       /\ IsFile(World, DirA)

\* C6 (as stated): once a Content is detached, no operation on it other than
\* attach() or remove() deletes the file it was bound to, at once or when the
\* Content is destroyed (a save that moves the file retargets the Content)
C6_DetachIsPermanent ==
  [][\A o \in DOMAIN pledge :
       (/\ pledge[o] # NoPath
        /\ last'.id = o
        /\ last'.op \notin {"attach", "remove"}
        /\ IsFile(World, pledge[o]))
       => \/ IsFile(World', pledge[o])
          \/ /\ last'.op = "save" /\ last'.ret = "True" /\ ~last'.copy
             /\ IsFile(World', last'.path)
             /\ files'[last'.path] = files[pledge[o]]]_vars

\* C7 (as stated): a backing file is owned by at most one live Content; every
\* child of split() is attached and backed by a temp file under work_dir that
\* the split created; and split() leaves every file that already existed as
\* it was
C7_ExclusiveOwnership ==
  [][/\ \A a, b \in 1..Len(objs') :
          (/\ a # b
           /\ objs'[a].st = "live" /\ objs'[b].st = "live"
           /\ objs'[a].detached = PyFalse /\ objs'[b].detached = PyFalse
           /\ objs'[a].filepath # NoPath)
          => objs'[a].filepath # objs'[b].filepath
     /\ SplitOk' =>
          /\ \A i \in 1..Len(last'.res) :
               /\ objs'[last'.res[i]].filepath \in TempPaths
               /\ ~IsFile(World, objs'[last'.res[i]].filepath)
               /\ IsFile(World', objs'[last'.res[i]].filepath)
               /\ objs'[last'.res[i]].detached = PyFalse
          /\ \A p \in DOMAIN files :
               p \in DOMAIN files' /\ files'[p] = files[p]]_vars

\* C8 (as stated): load([c1..cN]), N >= 1, returns True and rebinds the
\* Content to a newly created attached file holding the bytes of c1..cN in
\* order; a file it was bound to while detached is neither modified nor kept
C8_LoadCollection ==
  [][(last'.op = "loadcoll" /\ Len(last'.srcs) >= 1)
     => /\ last'.ret = "True"
        /\ objs'[last'.id].filepath # NoPath
        /\ ~IsFile(World, objs'[last'.id].filepath)
        /\ IsFile(World', objs'[last'.id].filepath)
        /\ objs'[last'.id].detached = PyFalse
        /\ Data(World', last'.id) = JoinedBytes(World, last'.srcs)
        /\ (/\ objs[last'.id].detached = PyTrue
            /\ IsFile(World, objs[last'.id].filepath))
           => /\ IsFile(World', objs[last'.id].filepath)
              /\ files'[objs[last'.id].filepath]
                   = files[objs[last'.id].filepath]
              /\ objs'[last'.id].filepath # objs[last'.id].filepath]_vars

\* C9 (as stated): copy() of a file-backed Content returns a new attached
\* Content with another filepath, the same bytes, filename, part,
\* total_parts, begin/end and sort_no; the original's bytes, filepath and
\* attached status are unchanged
C9_Copy ==
  [][(last'.op = "copy" /\ IsFile(World, objs[last'.id].filepath))
     => /\ last'.ret = "ok"
        /\ is_attached(objs'[last'.res[1]])
        /\ objs'[last'.res[1]].filepath # objs[last'.id].filepath
        /\ Data(World', last'.res[1]) = Data(World, last'.id)
        /\ objs'[last'.res[1]].filename = objs[last'.id].filename
        /\ objs'[last'.res[1]].part = objs[last'.id].part
        /\ objs'[last'.res[1]].total_parts = objs[last'.id].total_parts
        /\ Begin(objs'[last'.res[1]]) = Begin(objs[last'.id])
        /\ End(World', last'.res[1]) = End(World, last'.id)
        /\ objs'[last'.res[1]].sort_no = objs[last'.id].sort_no
        /\ objs'[last'.id].filepath = objs[last'.id].filepath
        /\ is_attached(objs'[last'.id]) = is_attached(objs[last'.id])
        /\ Data(World', last'.id) = Data(World, last'.id)]_vars

\* a successful save of a Content whose backing file exists, or which has no
\* backing file yet
SavedFile(o) ==
  /\ last'.op = "save" /\ last'.ret = "True" /\ last'.id = o
  /\ objs[o].filepath = NoPath \/ IsFile(World, objs[o].filepath)

LoadedPath == Resolve(last'.path)

\* C11 (as stated): load(p) for an existing regular file p leaves the Content
\* detached, valid and bound to p; load(d) for a directory d leaves it
\* detached with is_dir set and not valid; in both cases a temp file the
\* Content held while attached no longer exists afterwards
C11_LoadPath ==
  [][last'.op = "load" =>
       /\ IsFile(World, LoadedPath)
            => /\ last'.ret = "True"
               /\ objs'[last'.id].detached = PyTrue
               /\ is_valid(objs'[last'.id])
               /\ objs'[last'.id].filepath = LoadedPath
       /\ IsDir(World, LoadedPath)
            => /\ objs'[last'.id].detached = PyTrue
               /\ objs'[last'.id].isdir
               /\ ~is_valid(objs'[last'.id])
       /\ (/\ IsFile(World, LoadedPath) \/ IsDir(World, LoadedPath)
           /\ is_attached(objs[last'.id])
           /\ objs[last'.id].filepath \in TempPaths
           /\ IsFile(World, objs[last'.id].filepath))
            => ~IsFile(World', objs[last'.id].filepath)]_vars

\* C12 (as stated): load() of a path that is neither a file nor a directory
\* returns False and leaves the Content unbacked and not valid, its part,
\* total_parts, sort_no and attached status being what they were
C12_LoadMissing ==
  [][(/\ last'.op = "load"
      /\ ~IsFile(World, LoadedPath) /\ ~IsDir(World, LoadedPath))
     => /\ last'.ret = "False"
        /\ objs'[last'.id].filepath = NoPath
        /\ objs'[last'.id].filename = ""
        /\ ~is_valid(objs'[last'.id])
        /\ objs'[last'.id].part = objs[last'.id].part
        /\ objs'[last'.id].total_parts = objs[last'.id].total_parts
        /\ objs'[last'.id].sort_no = objs[last'.id].sort_no
        /\ is_attached(objs'[last'.id]) = is_attached(objs[last'.id])]_vars

\* C20 (as stated): every Content has 1 <= part <= total_parts in every
\* reachable state, and a construction with values that break this is
\* rejected
C20_PartIndexInvariant ==
  /\ \A o \in 1..Len(objs) :
       1 <= objs[o].part /\ objs[o].part <= objs[o].total_parts
  /\ (/\ last.op = "new"
      /\ \/ (last.n1 # NoInt /\ last.n1 < 1)
         \/ (last.n2 # NoInt
               /\ last.n2 < (IF last.n1 = NoInt THEN 1 ELSE last.n1)))
     => last.ret = "raise"

\* C28: split() called with a part size or a memory buffer that is zero,
\* negative, None or not a size returns None, and no Content and no file is
\* created
C28_SplitValidation ==
  [][(last'.op = "split"
        /\ (last'.n1 \in BadSizes \/ last'.n2 \in BadSizes)) =>
       /\ last'.ret = "None"
       /\ Len(objs') = Len(objs)
       /\ DOMAIN files' \subseteq DOMAIN files
       /\ ntemp' = ntemp]_vars

Next ==
  \/ DoNew \/ DoWrite \/ DoLoadPath \/ DoLoadColl \/ DoLoadContent
  \/ DoSave \/ DoCopy \/ DoSplit \/ DoDetach \/ DoAttach \/ DoRemove \/ DoDel

Spec == Init /\ [][Next]_vars

\* ----------------------------------------------------------- codec actions
\* the payloads encoded: every string of at most MaxLen of these bytes, which
\* are one plain byte and bytes whose encodings are '.', '=', NUL, LF and CR
SampleBytes == {0, 4, 19, 214, 224, 227}
Payloads == UNION {[1..n -> SampleBytes] : n \in 0..MaxLen}

CodecInit ==
  /\ objs = <<>>
  /\ \E cwd \in BOOLEAN : \E data \in Payloads :
       files = IF cwd THEN (CwdA :> <<9>>) @@ (DirA :> data)
               ELSE (DirA :> data)
  /\ dirs = {DDir}
  /\ ntemp = 0
  /\ steps = 0
  /\ last = NoLast
  /\ pledge = <<>>
  /\ stream = NoStream
  /\ dec = FreshCodec
  /\ parts = {}
  /\ arts = <<>>
  /\ tasks = NoTasks
  /\ hook = NewHook

\* c = NNTPContent("dir/a")
DoOpenPayload ==
  /\ CanStep /\ objs = <<>>
  /\ LET r == New(World, DirA, NoInt, NoInt, NoInt, NoInt, NoInt,
                  DefaultSortNo, FALSE)
     IN Commit(r.w, [NoLast EXCEPT !.op = "new", !.id = r.id, !.ret = r.ret,
                                   !.path = DirA])

\* article = codec.encode(c, mem_buf), the codec having line length linelen
DoEncode ==
  /\ CanStep
  /\ \E o \in Live : \E linelen \in 1..MaxLineLen : \E mem_buf \in {1, MaxLen} :
       LET r == Encode(World, o, linelen, mem_buf)
       IN /\ CommitWorld(r.w, [NoLast EXCEPT !.op = "encode", !.id = o,
                                             !.ret = r.ret, !.n1 = linelen,
                                             !.n2 = mem_buf])
          /\ stream' = IF r.ret = "ok"
                         THEN [lines |-> r.lines, pos |-> 1,
                               payload |-> Data(World, o), src |-> o,
                               tampered |-> FALSE]
                         ELSE stream
          /\ dec' = dec
          /\ arts' = arts
          /\ tasks' = tasks
          /\ hook' = hook

\* the article with the pcrc32 of its =yend line changed
BadChecksum(lines) ==
  [i \in 1..Len(lines) |->
     IF lines[i].kind = "yend"
       THEN [lines[i] EXCEPT !.pcrc32 = @ + 1] ELSE lines[i]]

\* the article with the first character of payload line i changed
BadPayload(lines, i) ==
  [lines EXCEPT ![i].chars[1] = IF @ = 43 THEN 44 ELSE 43]

\* the article is damaged on its way: a wrong checksum or a changed character
DoTamper ==
  /\ CanStep
  /\ stream.lines # <<>> /\ ~stream.tampered /\ stream.pos = 1
  /\ \E t \in {BadChecksum(stream.lines)}
             \cup {BadPayload(stream.lines, i) :
                     i \in {j \in 1..Len(stream.lines) :
                              stream.lines[j].kind = "data"}} :
       /\ stream' = [stream EXCEPT !.lines = t, !.tampered = TRUE]
       /\ CommitWorld(World, [NoLast EXCEPT !.op = "tamper"])
       /\ dec' = dec
       /\ arts' = arts
       /\ tasks' = tasks
       /\ hook' = hook

\* the lines an article from the network may be made of: =ybegin with and
\* without a name, with and without a part, =ypart, =yend, and a payload
\* line (one byte, 0x01)
ArticleLines ==
  {[kind |-> "ybegin", part |-> 1, total |-> 1, line |-> 128, size |-> 1,
    name |-> "a"],
   [kind |-> "ybegin", part |-> 2, total |-> 3, line |-> 128, size |-> 1,
    name |-> "a"],
   [kind |-> "ybegin", part |-> NoInt, total |-> 2, line |-> 128, size |-> 1,
    name |-> "b"],
   [kind |-> "ybegin", part |-> 1, total |-> 1, line |-> 128, size |-> 1,
    name |-> ""],
   [kind |-> "ypart", begin |-> 1, end |-> 1],
   [kind |-> "yend", size |-> 1, part |-> 1, pcrc32 |-> Crc32(<<1>>, 0),
    crc32 |-> NoInt],
   DataLine(<<43>>)}

Articles == UNION {[1..n -> ArticleLines] : n \in 1..MaxArticle}

\* an article arrives from the network: any sequence of lines
DoReceive ==
  /\ CanStep
  /\ stream.lines = <<>>
  /\ \E t \in Articles :
       /\ stream' = [NoStream EXCEPT !.lines = t, !.tampered = TRUE]
       /\ CommitWorld(World, [NoLast EXCEPT !.op = "receive"])
       /\ dec' = dec
       /\ arts' = arts
       /\ tasks' = tasks
       /\ hook' = hook

\* content = codec.decode(article)
DoDecode ==
  /\ CanStep
  /\ stream.lines # <<>>
  /\ LET r == Decode(World, dec, stream.lines, stream.pos)
     IN /\ CommitWorld(r.w, [NoLast EXCEPT !.op = "decode", !.id = r.d.decoded,
                                           !.ret = r.ret, !.n1 = r.pcrc32,
                                           !.n2 = r.crc])
        /\ stream' = [stream EXCEPT !.pos = r.pos]
        /\ dec' = r.d
        /\ arts' = arts
        /\ tasks' = tasks
        /\ hook' = hook

CodecNext == DoOpenPayload \/ DoEncode \/ DoTamper \/ DoDecode

SpecCodec == CodecInit /\ [][CodecNext]_vars

\* the decoder alone, fed with articles as they may arrive from the network
DecodeNext == DoReceive \/ DoDecode

SpecDecode == Init /\ [][DecodeNext]_vars

\* n = c.total_size(); end() caches its value when there are several parts
DoTotalSize ==
  /\ CanStep
  /\ \E o \in Live :
       Commit(IF objs[o].total_parts <= 1 THEN World ELSE EndCached(World, o),
              [NoLast EXCEPT !.op = "total_size", !.id = o,
                             !.n1 = TotalSize(World, o)])

\* posting: a Content is split into parts and the parts are encoded
PostNext ==
  \/ DoNew \/ DoWrite \/ DoSplit \/ DoEncode \/ DoTotalSize \/ DoRemove
  \/ DoDel

SpecPost == Init /\ [][PostNext]_vars

\* the characters of the payload lines received: '+' (a plain character),
\* '=', '@' (which YENC_DECODE_SPECIAL_MAP knows after '=') and 'A' (which
\* it does not)
PayloadChars == {43, ESCAPE, 64, 65}

MaxPayloadLine == 2

PayloadLines ==
  {DataLine(c) : c \in UNION {[1..n -> PayloadChars] : n \in 1..MaxPayloadLine}}

\* an article arrives: an =ybegin line and one or two payload lines
DoReceivePayload ==
  /\ CanStep
  /\ stream.lines = <<>>
  /\ \E t \in UNION {[1..n -> PayloadLines] : n \in 1..2} :
       /\ stream' = [NoStream EXCEPT
                       !.lines = <<[kind |-> "ybegin", part |-> NoInt,
                                    total |-> 2, line |-> 128, size |-> 1,
                                    name |-> "b"]>> \o t,
                       !.tampered = TRUE]
       /\ CommitWorld(World, [NoLast EXCEPT !.op = "receive"])
       /\ dec' = dec
       /\ arts' = arts
       /\ tasks' = tasks
       /\ hook' = hook

\* the decoder fed with payload lines of any characters
EscapeNext == DoReceivePayload \/ DoDecode

SpecEscape == Init /\ [][EscapeNext]_vars

\* the blocks received whole: =ybegin, =ypart or not, one or two payload
\* lines, =yend
BlockBegins ==
  {[kind |-> "ybegin", part |-> 1, total |-> 1, line |-> 128, size |-> 1,
    name |-> "a"],
   [kind |-> "ybegin", part |-> 2, total |-> 3, line |-> 128, size |-> 1,
    name |-> "a"],
   [kind |-> "ybegin", part |-> NoInt, total |-> 2, line |-> 128, size |-> 1,
    name |-> "b"]}

Blocks ==
  {<<b>> \o p \o d \o <<[kind |-> "yend", size |-> 1, part |-> 1,
                         pcrc32 |-> Crc32(<<1>>, 0), crc32 |-> NoInt]>> :
     b \in BlockBegins,
     p \in {<<>>, <<[kind |-> "ypart", begin |-> 1, end |-> 1]>>},
     d \in {<<DataLine(<<43>>)>>, <<DataLine(<<43>>), DataLine(<<44, 45>>)>>}}

\* an article arrives that is one block
DoReceiveBlock ==
  /\ CanStep
  /\ stream.lines = <<>>
  /\ \E t \in Blocks :
       /\ stream' = [NoStream EXCEPT !.lines = t, !.tampered = TRUE]
       /\ CommitWorld(World, [NoLast EXCEPT !.op = "receive"])
       /\ dec' = dec
       /\ arts' = arts
       /\ tasks' = tasks
       /\ hook' = hook

\* codec.decode(stream) on a stream that ends after line k of the article:
\* the rest has not arrived yet
DoDecodeUpTo ==
  /\ CanStep
  /\ stream.lines # <<>>
  /\ \E k \in stream.pos..(Len(stream.lines) - 1) :
       LET r == Decode(World, dec, SubSeq(stream.lines, 1, k), stream.pos)
       IN /\ CommitWorld(r.w, [NoLast EXCEPT !.op = "decode_part",
                                             !.id = r.d.decoded,
                                             !.ret = r.ret, !.n1 = k])
          /\ stream' = [stream EXCEPT !.pos = r.pos]
          /\ dec' = r.d
          /\ arts' = arts
          /\ tasks' = tasks
          /\ hook' = hook

\* a block decoded in one call or in several
ResumeNext == DoReceiveBlock \/ DoDecodeUpTo \/ DoDecode

SpecResume == Init /\ [][ResumeNext]_vars

\* c.split(size, mem_buf) while the disk refuses one of the writes (IOError,
\* ENOSPC or another I/O error)
DoSplitIO ==
  /\ CanStep
  /\ \E o \in Live : \E size \in 1..MaxLen : \E mem_buf \in {1, MaxLen} :
     \E fail \in 1..MaxLen :
       /\ Len(objs) + MaxLen <= MaxObj
       /\ LET r == SplitIO(World, o, size, mem_buf, fail)
          IN Commit(r.w, [NoLast EXCEPT !.op = "split_io", !.id = o,
                                        !.ret = r.ret, !.res = r.res,
                                        !.n1 = size, !.n2 = fail])

\* splitting on a disk that fails
SplitIONext == DoNew \/ DoWrite \/ DoSplitIO

SpecSplitIO == Init /\ [][SplitIONext]_vars

\* ------------------------------------------------------- sort key actions
MaxKeyed == 2
KeySortNos == {DefaultSortNo, 99999, 100000}
KeyParts == {1, 99999, 100000}
KeyNames == {"a", "a.b", "b"}

\* c = NNTPContent(name, part=part, sort_no=sort_no)
DoNewKeyed ==
  /\ CanStep /\ Len(objs) < MaxKeyed
  /\ \E name \in KeyNames : \E part \in KeyParts : \E sort_no \in KeySortNos :
       LET r == New(World, name, part, NoInt, NoInt, NoInt, NoInt, sort_no,
                    FALSE)
       IN Commit(r.w, [NoLast EXCEPT !.op = "new", !.id = r.id, !.ret = r.ret,
                                     !.path = name, !.n1 = part,
                                     !.n2 = sort_no])

\* cmp(a, b) of two Contents, as sorting by key() compares them
DoCompare ==
  /\ CanStep
  /\ \E a \in Live : \E b \in Live \ {a} :
       Commit(World, [NoLast EXCEPT !.op = "cmp", !.id = a, !.srcs = <<b>>,
                                    !.ret = ContentCmp(World, a, b)])

\* a < b of two Contents
DoLessThan ==
  /\ CanStep
  /\ \E a \in Live : \E b \in Live \ {a} :
       Commit(World, [NoLast EXCEPT !.op = "lt", !.id = a, !.srcs = <<b>>,
                                    !.ret = IF ContentLt(World, a, b)
                                            THEN "True" ELSE "False"])

\* ------------------------------------------------------------ file actions
\* a step of an operation that makes no Content and adds no bytes
CommitQuiet(w, l) ==
  /\ objs' = w.objs
  /\ parts' = PartsAfter(l)
  /\ pledge' = [o \in 1..Len(w.objs) |-> Pledged(w, l, o)]
  /\ files' = w.files
  /\ dirs' = w.dirs
  /\ ntemp' = w.ntemp
  /\ last' = l
  /\ UNCHANGED <<steps, stream, dec, arts, tasks, hook>>

MaxFiles == 2

\* c = NNTPContent(path)
DoNewFile ==
  /\ CanStep /\ Len(objs) < MaxFiles
  /\ \E fp \in {DirA, OutB} :
       LET r == New(World, fp, NoInt, NoInt, NoInt, NoInt, NoInt,
                    DefaultSortNo, FALSE)
       IN Commit(r.w, [NoLast EXCEPT !.op = "new", !.id = r.id, !.ret = r.ret,
                                     !.path = fp])

FileModes == {BINARY_RO, BINARY_WO, BINARY_WO_TRUNCATE, BINARY_RW}

\* c.open(mode=mode)
DoOpen ==
  \E o \in Live : \E mode \in FileModes :
    LET r == Open(World, o, mode)
    IN CommitQuiet(r.w, [NoLast EXCEPT !.op = "open", !.id = o, !.path = mode,
                                       !.ret = IF r.ok THEN "ok" ELSE "False"])

\* c.close()
DoClose ==
  \E o \in Live :
    CommitQuiet(CloseIn(World, o), [NoLast EXCEPT !.op = "close", !.id = o])

\* n = c.end()
DoEnd ==
  \E o \in Live :
    CommitQuiet(EndCall(World, o),
                [NoLast EXCEPT !.op = "end", !.id = o, !.n1 = End(World, o)])

\* n = len(c)
DoLen ==
  \E o \in Live :
    /\ objs[o].filepath # NoPath => IsFile(World, objs[o].filepath)
    /\ CommitQuiet(Flushed(World, o),
                   [NoLast EXCEPT !.op = "len", !.id = o,
                                  !.n1 = Length(World, o)])

\* c.tell()
DoTell ==
  \E o \in Live :
    LET r == Tell(World, o)
    IN CommitQuiet(r.w, [NoLast EXCEPT !.op = "tell", !.id = o,
                                       !.ret = IF r.ok THEN "ok" ELSE "None"])

\* c.append(e)
DoAppend ==
  /\ CanStep
  /\ \E o \in Live : \E e \in Sources(o) :
       /\ Len(Data(World, o)) + Len(Data(World, e)) <= 2 * MaxLen
       /\ LET r == AppendOne(World, o, e)
          IN Commit(r.w, [NoLast EXCEPT !.op = "append", !.id = o,
                                        !.ret = r.ret, !.srcs = <<e>>])

\* a Content used as a file: opened, written, appended to, measured, closed
FileNext ==
  \/ DoNewFile \/ DoOpen \/ DoClose \/ DoWrite \/ DoAppend \/ DoEnd \/ DoLen
  \/ DoTell

SpecFile == Init /\ [][FileNext]_vars

\* the calls after which end() is asked for
EndNext ==
  \/ DoNewFile \/ DoWrite \/ DoAppend \/ DoClose \/ DoTell \/ DoLen
  \/ DoEnd

SpecEnd == Init /\ [][EndNext]_vars

\* ------------------------------------------------------------ task actions
\* Two tasks share the work directory; each makes one call, a step of a
\* call being what it does between two suspension points.
MaxNames == 2

\* a step of task t: the world, the record of the step, the task's state
TaskStep(w, l, t, st) ==
  /\ objs' = w.objs
  /\ parts' = PartsAfter(l)
  /\ pledge' = [o \in 1..Len(w.objs) |-> Pledged(w, l, o)]
  /\ files' = w.files
  /\ dirs' = w.dirs
  /\ ntemp' = w.ntemp
  /\ last' = l
  /\ tasks' = [tasks EXCEPT ![t] = st]
  /\ UNCHANGED <<steps, stream, dec, arts, hook>>

\* copy, first step: "_, filepath = mkstemp(dir=self.work_dir)"; the source
\* is a Content on a file of the user, which no task writes to
DoCopyMkstemp ==
  \E t \in Tasks : \E o \in Live : \E n \in 1..MaxNames :
    /\ tasks[t].pc = "idle"
    /\ objs[o].filepath \in UserPaths /\ IsFile(World, objs[o].filepath)
    /\ ~IsFile(World, TempPath(n))
    /\ TaskStep(MkstempAt(World, n).w,
                [NoLast EXCEPT !.op = "copy_mkstemp", !.id = o],
                t, [IdleTask EXCEPT !.pc = "reserved", !.src = o,
                                    !.path = TempPath(n)])

\* copy, second step: "unlink(filepath)"
DoCopyUnlink ==
  \E t \in Tasks :
    /\ tasks[t].pc = "reserved"
    /\ TaskStep(RmPath(World, tasks[t].path),
                [NoLast EXCEPT !.op = "copy_unlink", !.id = tasks[t].src],
                t, [tasks[t] EXCEPT !.pc = "unlinked"])

\* copy, third step: "if not self.save(filepath, copy=True): return None"
DoCopySave ==
  \E t \in Tasks :
    /\ tasks[t].pc = "unlinked"
    /\ objs[tasks[t].src].st = "live"
    /\ LET r == Save(World, tasks[t].src, tasks[t].path, TRUE)
       IN TaskStep(r.w,
                   [NoLast EXCEPT !.op = "copy_save", !.id = tasks[t].src,
                                  !.ret = r.ret],
                   t, [tasks[t] EXCEPT
                         !.pc = IF r.ret = "True" THEN "saved" ELSE "failed"])

\* copy, last step: the new Content is built on filepath and attached
DoCopyNew ==
  \E t \in Tasks :
    /\ tasks[t].pc = "saved"
    /\ LET r == CopySaved([w |-> World, ret |-> "True"], tasks[t].src,
                          tasks[t].path)
       IN TaskStep(r.w,
                   [NoLast EXCEPT !.op = "copy", !.id = tasks[t].src,
                                  !.ret = r.ret,
                                  !.res = IF r.id = NoObj THEN <<>>
                                          ELSE <<r.id>>],
                   t, [tasks[t] EXCEPT !.pc = "copied", !.obj = r.id])

\* a temp-backed Content, first step: c = NNTPContent(); c.open(), which
\* takes the temp file mkstemp creates
DoTaskOpen ==
  \E t \in Tasks : \E n \in 1..MaxNames :
    /\ tasks[t].pc = "idle"
    /\ Len(objs) < MaxObj
    /\ ~IsFile(World, TempPath(n))
    /\ LET c == New(World, "", NoInt, NoInt, NoInt, NoInt, NoInt,
                    DefaultSortNo, FALSE)
       IN TaskStep(OpenTemp(MkstempAt(c.w, n), c.id, BINARY_RW).w,
                   [NoLast EXCEPT !.op = "open", !.id = c.id, !.ret = "ok"],
                   t, [IdleTask EXCEPT !.pc = "opened", !.obj = c.id,
                                       !.path = TempPath(n)])

\* a temp-backed Content, second step: c.write(data), a byte of the task
DoTaskWrite ==
  \E t \in Tasks :
    /\ tasks[t].pc = "opened"
    /\ LET r == Write(World, tasks[t].obj, <<100 + t>>)
       IN TaskStep(r.w,
                   [NoLast EXCEPT !.op = "write", !.id = tasks[t].obj,
                                  !.ret = r.ret],
                   t, [tasks[t] EXCEPT !.pc = "written"])

TaskNext ==
  \/ DoNewFile \/ DoCopyMkstemp \/ DoCopyUnlink \/ DoCopySave \/ DoCopyNew
  \/ DoTaskOpen \/ DoTaskWrite

SpecTask == Init /\ [][TaskNext]_vars

\* --------------------------------------------------------- Article actions
MaxArts == 1
HeaderSortNo == 5000

\* a step of an operation on an Article: no Content and no file changes
ArticleStep(a, l) ==
  /\ arts' = a
  /\ last' = l
  /\ UNCHANGED <<objs, files, dirs, ntemp, steps, pledge, stream, dec, parts,
               tasks, hook>>

NoGroups == [form |-> "none", names |-> {}]

\* a = NNTPArticle()
DoNewArticle ==
  /\ Len(arts) < MaxArts
  /\ ArticleStep(Append(arts, NewArticle("", 1000, NoGroups)),
                 [NoLast EXCEPT !.op = "newarticle", !.n1 = Len(arts) + 1])

\* h = NNTPHeader(): a Content of a low sort tier
DoNewHeader ==
  /\ CanStep /\ Len(objs) < MaxObj
  /\ LET r == New(World, "", NoInt, NoInt, NoInt, NoInt, NoInt, HeaderSortNo,
                  FALSE)
     IN Commit(SetObj(r.w, r.id, [r.w.objs[r.id] EXCEPT !.isheader = TRUE]),
               [NoLast EXCEPT !.op = "newheader", !.id = r.id, !.ret = r.ret])

\* article.add(content)
DoAdd ==
  \E a \in 1..Len(arts) : \E o \in Live \cup {NoObj} :
    LET r == ArticleAdd(World, arts[a], o)
    IN ArticleStep([arts EXCEPT ![a] = r.a],
                   [NoLast EXCEPT !.op = "add", !.id = o, !.n1 = a,
                                  !.ret = r.ret])

\* the decoded set of a response the Contents ids were added to, in turn
RECURSIVE ResponseDecoded(_, _)
ResponseDecoded(w, ids) ==
  IF ids = <<>> THEN <<>>
  ELSE SortedAdd(w, ResponseDecoded(w, SubSeq(ids, 1, Len(ids) - 1)),
                 ids[Len(ids)])

\* article.load_response(response), the response having just been fetched:
\* its body is its own, its decoded set was filled with the Contents ids
DoLoadResponse ==
  \E a \in 1..Len(arts) :
  \E ids \in {<<>>} \cup {<<o>> : o \in Live}
             \cup {q \in Live \X Live : q[1] # q[2]} :
    LET r == LoadResponse(World, arts[a],
                          [body |-> ResponseBody,
                           decoded |-> ResponseDecoded(World, ids)])
    IN ArticleStep([arts EXCEPT ![a] = r.a],
                   [NoLast EXCEPT !.op = "loadresp", !.n1 = a,
                                  !.ret = r.ret,
                                  !.res = Values(ResponseDecoded(World, ids))])

ArticleNos == {1000, 99999, 100000}
ArticleIds == {"a", "b"}

\* a = NNTPArticle(id=id, no=no)
DoNewArticleNo ==
  /\ Len(arts) < MaxKeyed
  /\ \E id \in ArticleIds : \E no \in ArticleNos :
       ArticleStep(Append(arts, NewArticle(id, no, NoGroups)),
                   [NoLast EXCEPT !.op = "newarticle", !.n1 = Len(arts) + 1])

\* a < b for two Articles
DoCompareArticles ==
  \E a \in 1..Len(arts) : \E b \in 1..Len(arts) :
    /\ a # b
    /\ ArticleStep(arts, [NoLast EXCEPT
                            !.op = "artcmp", !.n1 = a, !.n2 = b,
                            !.ret = IF ArticleLess(arts[a], arts[b])
                                      THEN "True" ELSE "False"])

\* the sort keys of Contents
KeyNext == DoNewKeyed \/ DoCompare \/ DoLessThan

SpecKey == Init /\ [][KeyNext]_vars

\* the sort keys of Articles
ArticleKeyNext == DoNewArticleNo \/ DoCompareArticles

SpecArticleKey == Init /\ [][ArticleKeyNext]_vars

\* the group names considered: ' A.b ', 'a.b' and 'a..b'
GroupNames ==
  {<<32, 65, 46, 98, 32>>, <<97, 46, 98>>, <<97, 46, 46, 98>>}

\* the groups arguments considered: None, a number, a str, and the lists,
\* tuples and sets of names
GroupArgs ==
  {NoGroups, [form |-> "int", names |-> {}]}
    \cup {[form |-> "str", names |-> {n}] : n \in GroupNames}
    \cup {[form |-> f, names |-> ns] :
            f \in {"list", "tuple", "set"}, ns \in SUBSET GroupNames}

\* a = NNTPArticle(groups=groups)
DoNewArticleGroups ==
  /\ Len(arts) < MaxKeyed
  /\ \E g \in GroupArgs :
       IF ArticleGroupsRaises(g)
         THEN ArticleStep(arts, [NoLast EXCEPT !.op = "newarticle",
                                               !.ret = "raise"])
         ELSE ArticleStep(Append(arts, NewArticle("", 1000, g)),
                          [NoLast EXCEPT !.op = "newarticle",
                                         !.n1 = Len(arts) + 1,
                                         !.path = g.form, !.groups = g.names])

\* s = NNTPGroup.split(groups)
DoGroupSplit ==
  \E g \in GroupArgs :
    ArticleStep(arts, [NoLast EXCEPT !.op = "groupsplit", !.path = g.form,
                                     !.srcs = g.names,
                                     !.groups = GroupSplit(g)])

GroupNext == DoNewArticleGroups \/ DoGroupSplit

SpecGroup == Init /\ [][GroupNext]_vars

\* an Article, the Contents added to it, and what is done to them afterwards
ArticleNext == DoNewFile \/ DoSave \/ DoNewArticle \/ DoAdd

SpecArticle == Init /\ [][ArticleNext]_vars

\* an Article that loads responses
ResponseNext ==
  DoNewFile \/ DoNewHeader \/ DoNewArticle \/ DoAdd \/ DoLoadResponse

SpecResponse == Init /\ [][ResponseNext]_vars

\* ------------------------------------------------------------ Hook actions
\* a step of an operation on the Hook
HookStep(h) ==
  /\ CanStep
  /\ hook' = h
  /\ steps' = steps + 1
  /\ UNCHANGED <<objs, files, dirs, ntemp, last, pledge, stream, dec, parts,
                 arts, tasks>>

\* hook.add(function, name=name, priority=priority)
DoHookAdd ==
  \E fn \in HookFuncs, name \in HookNames, priority \in Priorities \cup {NoInt} :
    HookStep(HookAdd(hook, fn, name, priority))

\* hook.call(name)
DoHookCall == \E name \in HookNames : HookStep(HookCall(hook, name))

HookNext == DoHookAdd \/ DoHookCall

SpecHook == Init /\ [][HookNext]_vars

\* ----------------------------------------------------------- codec claims
\* a decode() call on a new codec that starts at the head of an article
\* which arrived as it was encoded
DecodesEncoded ==
  /\ last'.op = "decode"
  /\ stream.lines # <<>> /\ stream.pos = 1 /\ ~stream.tampered
  /\ dec = FreshCodec

\* C1 (as stated): decoding the output of encode(C) gives a Content whose
\* bytes are C's bytes, whose crc32 is C's crc32 and which is valid
C1_RoundTrip ==
  [][DecodesEncoded
     => /\ last'.ret = "ok"
        /\ Data(World', last'.id) = stream.payload
        /\ Crc32(Data(World', last'.id), 0) = Crc32(stream.payload, 0)
        /\ is_valid(objs'[last'.id])]_vars

\* C2 (as stated): when decode reads an =yend line whose pcrc32 differs from
\* the rolling CRC of the bytes it decoded, nothing is raised and the
\* resulting Content is not valid
C2_CrcReconciliation ==
  (last.op = "decode" /\ last.n1 # NoInt /\ last.n1 # last.n2)
    => /\ last.ret = "ok"
       /\ ~is_valid(objs[last.id])

\* C13 (as stated): decode() never raises, whatever the lines of its input
\* and their order
C13_DecoderNeverAborts ==
  last.op = "decode" => last.ret # "raise"

\* a decode() call of a new codec on an article without any =yend line
DecodesTruncated ==
  /\ last'.op = "decode"
  /\ dec = FreshCodec /\ stream.pos = 1
  /\ \A i \in 1..Len(stream.lines) : stream.lines[i].kind # "yend"

\* C14 (as stated): when the input ends before an =yend line has been read,
\* the Content holding the bytes decoded so far is not valid, however many
\* payload lines were decoded
C14_TruncatedInput ==
  [][(DecodesTruncated /\ dec'.decoded # NoObj)
     => ~is_valid(objs'[dec'.decoded])]_vars

\* C15: while neither =ybegin nor =ypart has been recorded, an =yend line or
\* a payload line read by decode() is ignored: the call does what it does on
\* the lines that follow it (no byte is written for it, the decoded-byte
\* count, the CRC and the recorded keywords are not changed by it, nothing is
\* raised for it); only the count of lines read includes it
C15_LinesBeforeBlockDropped ==
  [][(/\ last'.op = "decode"
      /\ stream.pos <= Len(stream.lines)
      /\ "begin" \notin dec.meta /\ "part" \notin dec.meta
      /\ stream.lines[stream.pos].kind \in {"yend", "data"})
     => /\ World' = Decode(World, dec, stream.lines, stream.pos + 1).w
        /\ dec' = [Decode(World, dec, stream.lines, stream.pos + 1).d
                     EXCEPT !.total_lines = @ + 1]
        /\ last'.ret = Decode(World, dec, stream.lines, stream.pos + 1).ret
        /\ stream'.pos = Decode(World, dec, stream.lines, stream.pos + 1).pos
        /\ (\A i \in stream.pos..Len(stream.lines) :
              stream.lines[i].kind \in {"yend", "data"})
           => /\ World' = World
              /\ dec' = [dec EXCEPT !.total_lines =
                                      @ + Len(stream.lines) - stream.pos + 1]
              /\ last'.ret = "True"]_vars

\* C15 happens: an =yend line and a payload line were dropped ahead of an
\* =ybegin line, and the payload line after it was decoded
C15_Witness ==
  /\ last.op = "decode" /\ last.ret = "True"
  /\ Len(stream.lines) = 4
  /\ stream.lines[1].kind = "yend" /\ stream.lines[2].kind = "data"
  /\ stream.lines[3].kind = "ybegin" /\ stream.lines[3].name = "a"
  /\ stream.lines[4].kind = "data"
  /\ dec.ndecoded = 1 /\ dec.lines = 1 /\ dec.total_lines = 4
  /\ dec.crc = Crc32(<<1>>, 0)
  /\ dec.meta = {"begin"}
  /\ Data(World, dec.decoded) \in {<<1>>, <<9, 1>>}

\* the characters of a payload line are escape pairs and plain characters,
\* no plain character being NUL, CR, LF or '='
RECURSIVE WellEscaped(_)
WellEscaped(chars) ==
  IF chars = <<>> THEN TRUE
  ELSE IF Head(chars) = ESCAPE
    THEN Len(chars) >= 2 /\ WellEscaped(Tail(Tail(chars)))
  ELSE Head(chars) \notin {0, CR, LF, ESCAPE} /\ WellEscaped(Tail(chars))

\* C16: for every payload and every line_len >= 2, each payload line that
\* encode() writes has at most line_len characters, does not end with '=',
\* does not begin with an unescaped '.', and holds no unescaped NUL, CR, LF
\* or '='
C16_PayloadLinesWellFormed ==
  (last.op = "encode" /\ last.ret = "ok" /\ last.n1 >= 2)
    => \A i \in 1..Len(stream.lines) :
         stream.lines[i].kind = "data"
           => /\ Len(stream.lines[i].chars) >= 1
              /\ Len(stream.lines[i].chars) <= last.n1
              /\ stream.lines[i].chars[Len(stream.lines[i].chars)] # ESCAPE
              /\ stream.lines[i].chars[1] # 46
              /\ WellEscaped(stream.lines[i].chars)

\* C16 happens: with line_len 2 the bytes 00 13 were encoded, the '=' that
\* would have ended the first line being pulled onto the second
C16_Witness ==
  /\ last.op = "encode" /\ last.ret = "ok" /\ last.n1 = 2
  /\ stream.payload = <<0, 19>>
  /\ Len(stream.lines) = 5
  /\ stream.lines[3] = DataLine(<<42>>)
  /\ stream.lines[4] = DataLine(<<ESCAPE, 125>>)

\* an encode() call that returned an article
Encoded == last'.op = "encode" /\ last'.ret = "ok"

\* C17 (as stated): the =ypart line that encode() writes for a Content has
\* begin = content.begin() + 1 and end = content.end(); for a child of
\* split() that end is the child's begin offset plus its length, and is not
\* beyond the length of the whole file
C17_YpartOffsets ==
  [][Encoded =>
       /\ stream'.lines[2].kind = "ypart"
       /\ stream'.lines[2].begin = Begin(objs[last'.id]) + 1
       /\ stream'.lines[2].end = End(World, last'.id)
       /\ last'.id \in parts
            => /\ stream'.lines[2].end
                    = Begin(objs[last'.id]) + Length(World, last'.id)
               /\ stream'.lines[2].end <= objs[last'.id].total_size]_vars

\* the =yend line of the article just written
YendWritten == stream'.lines[Len(stream'.lines)]

\* C18 (as stated): the =yend line that encode() writes carries pcrc32, the
\* CRC32 of the bytes of the Content encoded, and carries a crc32 field if
\* and only if the Content has a parent, the field then being the CRC32 of
\* the parent's whole content
C18_YendChecksums ==
  [][Encoded =>
       /\ YendWritten.kind = "yend"
       /\ YendWritten.pcrc32 = Crc32(Data(World, last'.id), 0)
       /\ YendWritten.crc32 # NoInt <=> objs[last'.id].parent # NoObj
       /\ objs[last'.id].parent # NoObj
            => YendWritten.crc32
                 = Crc32(Data(World, objs[last'.id].parent), 0)]_vars

\* C19 (as stated): every child that split() returns for a Content of length
\* len reports total_size() = len, the length of the whole file
C19_TotalSizeOfPart ==
  [][SplitOk' =>
       \A i \in 1..Len(last'.res) :
         TotalSize(World', last'.res[i]) = Length(World, last'.id)]_vars

\* the order of (sort_no, filename, part): sort_no and part as numbers, the
\* filename as a plain string
TupleLess(a, b) ==
  \/ a.sort_no < b.sort_no
  \/ /\ a.sort_no = b.sort_no
     /\ \/ StrLess(Chars(a.filename), Chars(b.filename))
        \/ a.filename = b.filename /\ a.part < b.part

\* C21: sorting by key() orders two Contents by sort_no (numerically), then
\* by filename (plain string order), then by part (numerically): the
\* comparison of the keys says "less" exactly when the tuple
\* (sort_no, filename, part) of the first is less than that of the second
C21_KeyOrder ==
  last.op = "cmp" =>
    ((last.ret = "lt") <=> TupleLess(objs[last.id], objs[last.srcs[1]]))

\* C22: in every state, iterating the decoded set of an Article yields its
\* Contents in increasing order of their sort keys (non-decreasing, and no
\* two entries with the same key), whatever was added and whatever was done
\* to the Contents since
C22_DecodedSorted ==
  \A a \in 1..Len(arts) :
    \A i \in 1..Len(arts[a].decoded) : \A j \in 1..Len(arts[a].decoded) :
      i < j =>
        StrLess(key(objs[arts[a].decoded[i].id], arts[a].decoded[i].id),
                key(objs[arts[a].decoded[j].id], arts[a].decoded[j].id))

\* an entry of the decoded set s has the sort key of the Content o
KeyPresent(w, s, o) ==
  \E i \in 1..Len(s) : key(w.objs[s[i].id], s[i].id) = key(w.objs[o], o)

\* C23: article.add(content) inserts the Content unless an entry with the
\* same sort key is already present; it returns True exactly when decoded
\* grew by one, returns False and leaves decoded unchanged for a duplicate
\* key, and returns False for an argument that is not a Content
C23_Add ==
  [][last'.op = "add" =>
       /\ (last'.ret = "True") <=>
            (Len(arts'[last'.n1].decoded) = Len(arts[last'.n1].decoded) + 1)
       /\ last'.id = NoObj =>
            last'.ret = "False" /\ arts' = arts
       /\ (last'.id # NoObj
             /\ KeyPresent(World, arts[last'.n1].decoded, last'.id)) =>
            last'.ret = "False" /\ arts' = arts
       /\ (last'.id # NoObj
             /\ ~KeyPresent(World, arts[last'.n1].decoded, last'.id)) =>
            /\ last'.ret = "True"
            /\ \E i \in 1..Len(arts'[last'.n1].decoded) :
                 arts'[last'.n1].decoded[i].id = last'.id]_vars

\* the Contents ids of a response that are Headers
HeadersOf(w, ids) ==
  {ids[i] : i \in {j \in 1..Len(ids) : w.objs[ids[j]].isheader}}

\* C24: after article.load_response(response) the article's body and decoded
\* set are the response's; when the response's decoded set held a Header,
\* that Header is article.header and is no longer a member of decoded;
\* otherwise article.header is None; the call returns True
C24_LoadResponse ==
  [][last'.op = "loadresp" =>
       /\ last'.ret = "True"
       /\ arts'[last'.n1].body = ResponseBody
       /\ HeadersOf(World, last'.res) = {} =>
            /\ arts'[last'.n1].header = NoObj
            /\ Values(arts'[last'.n1].decoded) = last'.res
       /\ HeadersOf(World, last'.res) # {} =>
            /\ arts'[last'.n1].header \in HeadersOf(World, last'.res)
            /\ {arts'[last'.n1].decoded[i].id :
                  i \in 1..Len(arts'[last'.n1].decoded)}
                 = {last'.res[i] : i \in 1..Len(last'.res)}
                     \ {arts'[last'.n1].header}
            /\ Len(arts'[last'.n1].decoded) = Len(last'.res) - 1]_vars

\* a response with a Header and another Content has been loaded
C24_Witness ==
  /\ last.op = "loadresp"
  /\ Len(last.res) = 2
  /\ HeadersOf(World, last.res) # {}
  /\ arts[last.n1].header \in HeadersOf(World, last.res)
  /\ Len(arts[last.n1].decoded) = 1

\* C25: a < b holds for two Articles exactly when (a.no, a.id) precedes
\* (b.no, b.id), the numbers compared as numbers and the ids as strings
C25_ArticleOrder ==
  last.op = "artcmp" =>
    ((last.ret = "True") <=>
       \/ arts[last.n1].no < arts[last.n2].no
       \/ /\ arts[last.n1].no = arts[last.n2].no
          /\ StrLess(Chars(arts[last.n1].id), Chars(arts[last.n2].id)))

\* a normalized group name: lower-case letters, digits, '.' and '-' only
IsNormalized(s) ==
  \A i \in 1..Len(s) : IsGroupChar(s[i]) /\ ~IsUpper(s[i])

\* C26: whatever form the groups argument took, the groups attribute of an
\* Article is a set of normalized names
C26_ArticleGroups ==
  \A a \in 1..Len(arts) : \A g \in arts[a].groups : IsNormalized(g)

\* a name with every run of dots reduced to one dot
RECURSIVE CollapseDots(_)
CollapseDots(s) ==
  IF Len(s) < 2 THEN s
  ELSE IF s[1] = 46 /\ s[2] = 46 THEN CollapseDots(Tail(s))
  ELSE <<Head(s)>> \o CollapseDots(Tail(s))

\* the name that names differing only in case, in characters outside
\* [A-Za-z0-9.-] and in repeated dots have in common
Canonical(s) == CollapseDots(Lower(SubInvalid(s)))

\* C27: the group set built from a collection of names has one element for
\* all the names that differ only in letter case, in characters outside
\* [A-Za-z0-9.-] or in repeated dots
C27_GroupCanonical ==
  (last.op = "groupsplit" /\ last.path \in {"list", "tuple", "set"}) =>
    Cardinality(last.groups)
      = Cardinality({Canonical(n) : n \in last.srcs} \ {<<>>})

\* C29: the file mode follows CLOSED --open(m)--> OPEN(m) and
\* OPEN(m) --close--> CLOSED; open(m) of a Content open in mode m changes
\* nothing about the Content or its file; open(m') of a Content open in
\* another mode closes the stream first, so the Content is open in m' with
\* the dirty flag cleared, and (unless m' truncates) its bytes are those it
\* had before
C29_FileModes ==
  [][/\ (last'.op = "open" /\ last'.ret = "ok") =>
          /\ objs'[last'.id].filemode = last'.path
          /\ objs[last'.id].filemode = last'.path =>
               objs' = objs /\ files' = files
          /\ objs[last'.id].filemode \notin {Closed, last'.path} =>
               /\ ~objs'[last'.id].dirty
               /\ last'.path # BINARY_WO_TRUNCATE =>
                    Data(World', last'.id) = Data(World, last'.id)
     /\ last'.op = "close" =>
          /\ objs'[last'.id].filemode = Closed
          /\ ~objs'[last'.id].dirty]_vars

\* C30: end() returns begin() plus the current length of the Content
\* (none of the Contents considered was given an end when constructed),
\* whatever write(), append(), close(), tell(), len() and end() calls came
\* before
C30_EndNeverStale ==
  [][last'.op = "end" =>
       last'.n1 = Begin(objs'[last'.id]) + Length(World', last'.id)]_vars

\* the first line at or after pos whose keyword is recorded already, the
\* keywords recorded being meta and those of the lines before it; 0 when the
\* input ends first or an =yend line closes the block first
RECURSIVE DupIndex(_, _, _)
DupIndex(meta, lines, pos) ==
  IF pos > Len(lines) THEN 0
  ELSE IF lines[pos].kind = "data" THEN DupIndex(meta, lines, pos + 1)
  ELSE IF KeyOf(lines[pos]) \in meta THEN pos
  ELSE IF lines[pos].kind = "yend"
    THEN IF meta = {} THEN DupIndex(meta, lines, pos + 1) ELSE 0
  ELSE DupIndex(meta \cup {KeyOf(lines[pos])}, lines, pos + 1)

\* C31: when decode() reads a keyword line whose kind is recorded already
\* for the current block, the call (if it did not raise before) leaves the
\* stream at the start of that line, counts only the lines before it, resets
\* the keyword state and the part number, returns the Content it has (None
\* without one) and does not mark it valid (it is as valid as it was when
\* the lines before that line had been read); the next decode() call reads
\* that line with an empty keyword state and consumes it
C31_DuplicateKeyword ==
  [][(/\ last'.op = "decode" /\ last'.ret # "raise"
      /\ DupIndex(dec.meta, stream.lines, stream.pos) > 0)
     => /\ stream'.pos = DupIndex(dec.meta, stream.lines, stream.pos)
        /\ stream'.lines = stream.lines
        /\ dec'.total_lines
             = dec.total_lines
                 + DupIndex(dec.meta, stream.lines, stream.pos) - stream.pos
        /\ dec'.meta = {} /\ dec'.part = 1
        /\ last'.id = dec'.decoded
        /\ last'.ret = IF dec'.decoded = NoObj THEN "None" ELSE "ok"
        /\ dec'.decoded # NoObj =>
             is_valid(objs'[dec'.decoded])
               = is_valid(Decode(World, dec,
                                 SubSeq(stream.lines, 1,
                                        DupIndex(dec.meta, stream.lines,
                                                 stream.pos) - 1),
                                 stream.pos).w.objs[dec'.decoded])
        /\ LET r == Decode(World', dec', stream'.lines, stream'.pos)
           IN r.ret = "raise" \/ r.pos > stream'.pos]_vars

\* C31 happens: =ybegin, a payload line and a second =ybegin were read; the
\* call returned the Content with the one decoded byte, not valid, and the
\* stream is at the second =ybegin
C31_Witness ==
  /\ last.op = "decode" /\ last.ret = "ok" /\ last.n2 = NoInt
  /\ Len(stream.lines) >= 3 /\ stream.pos = 3
  /\ stream.lines[1].kind = "ybegin" /\ stream.lines[1].name = "a"
  /\ stream.lines[2].kind = "data"
  /\ stream.lines[3].kind = "ybegin"
  /\ dec.meta = {} /\ dec.total_lines = 2 /\ dec.ndecoded = 1
  /\ dec.decoded # NoObj /\ ~is_valid(objs[dec.decoded])
  /\ Len(Data(World, dec.decoded)) >= 1

\* C32 (as stated): an =ypart line read while no =ybegin is recorded is
\* ignored: the call does what it does on the lines that follow it, with the
\* recorded keywords, the part number and the target Content it had; only
\* the count of lines read includes it
C32_StrayYpartIgnored ==
  [][(/\ last'.op = "decode"
      /\ stream.pos <= Len(stream.lines)
      /\ "begin" \notin dec.meta /\ "part" \notin dec.meta
      /\ stream.lines[stream.pos].kind = "ypart")
     => /\ World' = Decode(World, dec, stream.lines, stream.pos + 1).w
        /\ dec' = [Decode(World, dec, stream.lines, stream.pos + 1).d
                     EXCEPT !.total_lines = @ + 1]
        /\ last'.ret = Decode(World, dec, stream.lines, stream.pos + 1).ret
        /\ stream'.pos = Decode(World, dec, stream.lines, stream.pos + 1).pos
     ]_vars

\* C33 (as stated): after decode() has processed an =ybegin line carrying
\* part=N, total=T and name=F, the Content it allocated has filename F, part
\* N (1 when the line has no part) and total_parts T
C33_YbeginMetadata ==
  [][(/\ last'.op = "decode" /\ last'.ret # "raise"
      /\ stream.pos <= Len(stream.lines)
      /\ dec.meta = {}
      /\ stream.lines[stream.pos].kind = "ybegin"
      /\ stream.lines[stream.pos].name # "")
     => /\ dec'.decoded \in (1..Len(objs')) \ (1..Len(objs))
        /\ objs'[dec'.decoded].filename = stream.lines[stream.pos].name
        /\ objs'[dec'.decoded].part
             = (IF stream.lines[stream.pos].part = NoInt
                  THEN 1 ELSE stream.lines[stream.pos].part)
        /\ objs'[dec'.decoded].total_parts = stream.lines[stream.pos].total
     ]_vars

\* the characters of the payload lines of an article, one line after the
\* other, the line terminators left out
RECURSIVE ArticleChars(_)
ArticleChars(lines) ==
  IF lines = <<>> THEN <<>>
  ELSE IF Head(lines).kind = "data"
    THEN Head(lines).chars \o ArticleChars(Tail(lines))
  ELSE ArticleChars(Tail(lines))

\* the bytes a yEnc payload stands for: '=' takes the character x after it
\* and gives (x - 64 - 42) mod 256, any other character b gives
\* (b - 42) mod 256
RECURSIVE Unescaped(_)
Unescaped(chars) ==
  IF chars = <<>> THEN <<>>
  ELSE IF Head(chars) = ESCAPE
    THEN IF Len(chars) = 1 THEN <<>>
         ELSE <<(chars[2] + 512 - 64 - 42) % 256>>
                \o Unescaped(Tail(Tail(chars)))
  ELSE <<(Head(chars) + 256 - 42) % 256>> \o Unescaped(Tail(chars))

\* every '=' of the payload has a character after it
RECURSIVE EscapesComplete(_)
EscapesComplete(chars) ==
  IF chars = <<>> THEN TRUE
  ELSE IF Head(chars) = ESCAPE
    THEN Len(chars) >= 2 /\ EscapesComplete(Tail(Tail(chars)))
  ELSE EscapesComplete(Tail(chars))

\* C34 (as stated): the bytes decode() writes for the payload lines of a
\* block are those the payload stands for: each '=' consumes the character x
\* after it, whatever x is and also when x is the first character of the
\* next line, and contributes (x - 64 - 42) mod 256; every other character b
\* contributes (b - 42) mod 256; line terminators contribute nothing
C34_EscapeHandling ==
  (/\ last.op = "decode" /\ last.ret = "True"
   /\ dec.decoded # NoObj /\ stream.pos > Len(stream.lines)
   /\ stream.lines[1].kind = "ybegin" /\ stream.lines[1].name = "b"
   /\ EscapesComplete(ArticleChars(stream.lines)))
  => Data(World, dec.decoded) = Unescaped(ArticleChars(stream.lines))

\* C35: a decode() call that reaches the end of its input before the =yend
\* line of a block leaves the decoder so that the call on the lines that
\* follow gives what one call on all the lines gives: the same Content with
\* the same bytes, part number and validity, the same codec state and the
\* same result
C35_Resumable ==
  [][(last'.op = "decode_part" /\ last'.ret = "True")
     => /\ Decode(World', dec', stream.lines, stream'.pos).w
             = Decode(World, dec, stream.lines, stream.pos).w
        /\ Decode(World', dec', stream.lines, stream'.pos).d
             = Decode(World, dec, stream.lines, stream.pos).d
        /\ Decode(World', dec', stream.lines, stream'.pos).ret
             = Decode(World, dec, stream.lines, stream.pos).ret
        /\ stream'.pos = last'.n1 + 1]_vars

\* C35 happens: a block with two payload lines was decoded in two calls,
\* the first ending before the =yend line; the Content holds the bytes of
\* both lines and is valid
C35_Witness ==
  /\ last.op = "decode" /\ last.ret = "ok" /\ steps = 3
  /\ Len(stream.lines) = 4 /\ stream.pos = 5
  /\ stream.lines[1].name = "b"
  /\ dec.decoded # NoObj /\ is_valid(objs[dec.decoded])
  /\ Data(World, dec.decoded) = <<1, 2, 3>>
  /\ dec.total_lines = 4 /\ dec.lines = 2 /\ dec.ndecoded = 3

\* C36 (as stated): when a write to a child fails during split(), split
\* returns None and no set; once the Contents the call built are released no
\* file the call created is left (the files are those there were before),
\* and the parent's bytes and its backing file are what they were
C36_SplitAllOrNothing ==
  [][(last'.op = "split_io" /\ last'.ret = "None")
     => /\ last'.res = <<>>
        /\ DOMAIN files' \subseteq DOMAIN files
        /\ \A i \in (Len(objs) + 1)..Len(objs') : objs'[i].st = "dead"
        /\ objs'[last'.id].filepath = objs[last'.id].filepath
        /\ Data(World', last'.id) = Data(World, last'.id)]_vars

\* the Contents the tasks have made: copies and temp-backed Contents
TaskResults ==
  {tasks[t].obj : t \in {u \in Tasks : tasks[u].pc \in {"copied", "written"}}}
    \ {NoObj}

\* C37 (as stated): however the steps of two tasks working in one work_dir
\* interleave, no two Contents the tasks made are bound to the same backing
\* path, and each copy holds the bytes of its source
C37_TempUniqueness ==
  /\ \A a \in TaskResults : \A b \in TaskResults :
       (a # b /\ objs[a].filepath # NoPath)
         => objs[a].filepath # objs[b].filepath
  /\ \A t \in Tasks :
       (tasks[t].pc = "copied" /\ tasks[t].obj # NoObj)
         => Data(World, tasks[t].obj) = Data(World, tasks[t].src)

\* C38 (as stated): encode() returns for every payload and every line length
\* linelen >= 1: each round of the line-wrapping loop moves the offset
\* forward (a round that leaves the offset where it was repeats for ever)
C38_EncodeTerminates ==
  last.op = "encode" => last.ret # "hang"


\* C40 (as stated): a < b of two Contents is true exactly when the key of a
\* is less than the key of b
C40_LessThan ==
  last.op = "lt" =>
    ((last.ret = "True")
       <=> StrLess(key(objs[last.id], last.id),
                   key(objs[last.srcs[1]], last.srcs[1])))

\* ---------------------------------------------------------------- Hook claims
\* the functions registered under the name: an add() with that name returned
\* True for them
Registered(name) == {fn \in HookFuncs : <<fn, name>> \in hook.adds}

\* how often call() invoked the function
Invocations(fn) ==
  Cardinality({i \in 1..Len(hook.called) : hook.called[i].function = fn})

\* C39 (as stated): call(name) invokes every function registered under name
\* exactly once and no other, in non-decreasing order of the stored priority;
\* the responses hold the functions invoked that did not raise and no other,
\* and they are empty for a name with no registrations
C39_HookDispatch ==
  hook.op = "call" =>
    /\ \A fn \in HookFuncs :
         Invocations(fn) = IF fn \in Registered(hook.name) THEN 1 ELSE 0
    /\ \A i \in 1..Len(hook.called) : \A j \in i..Len(hook.called) :
         hook.called[i].priority <= hook.called[j].priority
    /\ {hook.responses[i].module : i \in 1..Len(hook.responses)}
         = {HookModule(fn) : fn \in Registered(hook.name) \ Raises}
    /\ Registered(hook.name) = {} => hook.responses = <<>>
====
